---- MODULE Spec2Model ----
(***************************************************************************)
(* A model of the sync plugin of AppFlowy-Collab                           *)
(* (collab-plugins/src/sync_plugin/plugin.rs) together with the SyncQueue  *)
(* it drives.  The plugin code is translated from the source; the          *)
(* SyncQueue (crate::sync_plugin::client), the document substrate and the  *)
(* tokio primitives are not part of the source tree and are modelled from  *)
(* the design document: those definitions are marked "spec-modelled".      *)
(***************************************************************************)
EXTENDS Integers, Sequences, FiniteSets, TLC

\* ------------------------------------------------------------------ bounds
\* Number of local updates committed to the document, and of calls of reset().
MaxUpdates == 2
MaxResets == 1
\* With a peer: number of local updates, and of messages the peer puts on the
\* incoming stream.
PeerMaxUpdates == 1
MaxIncoming == 2
\* With subscribers: number of local updates, of calls of reset(), and of
\* subscribers of the sync state.
SubMaxUpdates == 1
SubMaxResets == 1
MaxSubs == 2

\* The retry budget of the background sender (a setting of SinkConfig): the
\* number of consecutive failed sends after which the sender gives up.
RetryBudget == 3

\* ------------------------------------------------------------------ values
\* Local updates are numbered in the order in which they are committed.
LocalUpdates == 1..MaxUpdates
\* The one update the peer sends (possibly several times).
RemoteUpdate == MaxUpdates + 1
Updates == LocalUpdates \cup {RemoteUpdate}
Subscribers == 1..MaxSubs

\* The SyncObject of the plugin (plugin.rs: struct SyncObject); one object.
ObjectId == "object"

VARIABLES
  doc,          \* the document: the set of updates applied to the substrate
  nextLocal,    \* the next local update to be committed
  pluginAlive,  \* the SyncPlugin still exists (it owns one Arc<SyncQueue>)
  strong,       \* the strong count of the Arc<SyncQueue>
  task,         \* task[u]: the task receive_local_update spawned for update u
  inited,       \* did_init has been called
  sync_queue,   \* the SyncQueue: pending messages, id counter, state, retries
  sink,         \* the messages the sink accepted, in order of acceptance
  stream,       \* the incoming stream: messages of the peer not yet consumed
  peerSent,     \* number of messages the peer has put on the stream
  handlerAlive, \* the incoming handler is still consuming
  handled,      \* history: the kinds of the incoming messages consumed, in order
  awareness,    \* ephemeral peer presence: number of Awareness messages applied
  subs,         \* subs[s]: the WatchStream of subscriber s
  resets,       \* number of calls of reset()
  enqLog,       \* history: for every call of queue_msg, in call order, the id it
                \* allocated and the message the build function made of it
  cleared,      \* history: msg_ids dropped by clear() or with the queue
  firedBeforeReset, \* history: updates whose callback fired before the last reset()
  \* collab-database and the history plugin
  input,        \* the arguments a caller passes to a call
  output,       \* its result, Pending until the call has returned
  row_map,      \* the map of one row in the document: key -> value if present
  block,        \* the rows of a database: row id -> the map of the row
  lastSet,      \* history: per row key, the argument of the last setter applied
  store,        \* the history plugin's Vec<Bytes> behind its Arc<RwLock>
  lock,         \* the RwLock of the store: its writer and its readers
  hist,         \* hist[t]: what handle t of the history plugin is doing
  \* the id generator, the user database of the tests, the children of the
  \* blocks of a document, and the local collab of the sync plugin
  ID_GEN,        \* the id generator: the last id it issued
  id_lock,       \* the Mutex of ID_GEN: the callers that hold it
  callers,       \* callers[c]: where caller c of RowId::default is
  user_database, \* the databases behind the Mutex of UserDatabase, and its holder
  scripts,       \* scripts[k]: the task spawned for script k
  children,      \* ChildrenMap: children_id -> the list of the ids of its children
  reference,     \* history: the reference sequences of the order lists
  collab,        \* the local collab: its sync state and its lock
  mirror         \* the task that mirrors the sync state of the queue

\* The variables of the sync plugin.
syncVars == <<doc, nextLocal, pluginAlive, strong, task, inited, sync_queue, sink,
              stream, peerSent, handlerAlive, handled, awareness, subs, resets,
              enqLog, cleared, firedBeforeReset>>

\* The variables of collab-database and of the history plugin.
dbVars == <<input, output, row_map, block, lastSet, store, lock, hist>>

\* The variables of the id generator, the user database, the children map
\* and the local collab.
extVars == <<ID_GEN, id_lock, callers, user_database, scripts, children, reference,
             collab, mirror>>

vars == <<syncVars, dbVars, extVars>>

\* A result not yet returned (results are held as {r}), and a variable that
\* plays no part in the specification at hand.
Pending == {}
Unused == "unused"

\* ------------------------------------------------- plugin.rs: pure parts

\* plugin.rs:118  Message::Sync(SyncMessage::Update(update)).encode_v1()
UpdatePayload(update) == [kind |-> "Update", updates |-> {update}]

\* A build function that forgets the id it is handed.
ClientUpdateRequestStaleId(origin, object_id, msg_id, payload) ==
  [origin |-> origin, object_id |-> object_id, msg_id |-> 1, payload |-> payload]

\* plugin.rs:119-121  ClientUpdateRequest::new(cloned_origin, object_id, msg_id, payload)
ClientUpdateRequest(origin, object_id, msg_id, payload) ==
  [origin |-> origin, object_id |-> object_id, msg_id |-> msg_id, payload |-> payload]

\* A callback that captures a clone of the Arc instead of a Weak.
CaptureClone(s) == s + 1

\* plugin.rs:111  Arc::downgrade(&self.sync_queue): the spawned task captures
\* a Weak, which leaves the strong count as it is.
CaptureWeak(s) == s

\* plugin.rs:117  weak_sync_queue.upgrade(): Some iff the queue still exists.
UpgradeSucceeds(s) == s > 0

\* The ids queue_msg can hand out: one per call.
MsgIdSpace == 1..(MaxUpdates + MaxIncoming + 1)

MsgIds(msgs) == {msgs[i].msg_id : i \in DOMAIN msgs}

\* -------------------------------------------- SyncQueue (spec-modelled)

\* queue_msg(build_fn): allocate the next id, build the message from it and
\* append it to the outbound queue, all under the queue's lock.
\* The build function is given as a function of the id.
QueueMsg(q, build) ==
  [q EXCEPT !.pending = Append(@, build[q.next_id]),
            !.next_id = @ + 1,
            !.state = IF @ = "Error" THEN "Error" ELSE "Syncing"]

\* clear(): drop all pending outbound messages; the state machine returns to Init.
Clear(q) == [q EXCEPT !.pending = <<>>, !.retries = 0, !.state = "Init"]

\* Dropping the last Arc<SyncQueue> drops the queue with what it holds.
DropQueue(q) == [q EXCEPT !.pending = <<>>]

\* The queue after one owner released its Arc while the count was s.
Release(q, s) == IF s - 1 = 0 THEN DropQueue(q) ELSE q

\* A sender that gives up on a message as soon as one send of it fails.
DropOnFailure(q) == [q EXCEPT !.pending = Tail(@)]

\* The queue after a failed send: the head stays queued to be retried, and
\* using up the retry budget turns the state to Error.
RetryOrGiveUp(q) ==
  [q EXCEPT !.retries = @ + 1,
            !.state = IF q.retries + 1 >= RetryBudget THEN "Error" ELSE @]

\* The sync state is a watch channel: a new value marks every receiver changed.
Broadcast(old, new, ss) ==
  IF old = new THEN ss
  ELSE [s \in Subscribers |->
          IF ss[s].status = "none" THEN ss[s] ELSE [ss[s] EXCEPT !.changed = TRUE]]

\* An observer that does not look at the origin of the transaction.
ObserverFiresAlways(origin) == TRUE

\* The substrate calls receive_local_update only for transactions of local origin.
ObserverFires(origin) == origin = "local"

\* A subscriber's stream: status none / new (not polled yet) / polled; changed
\* says that the channel holds a value the receiver has not seen.  atSub (the
\* state when the stream was made, kept until the first poll) and last (the
\* value the stream yielded last) record what the subscriber observes.
NoSub == [status |-> "none", atSub |-> "none", last |-> "none", changed |-> FALSE]

\* ------------------------------------------------------------------ Init
\* plugin.rs:66-92  SyncPlugin::new: a fresh queue owned by one Arc.
SyncInit ==
  /\ doc = {}
  /\ nextLocal = 1
  /\ pluginAlive = TRUE
  /\ strong = 1
  /\ task = [u \in Updates |-> "none"]
  /\ inited = FALSE
  /\ sync_queue = [pending |-> <<>>, next_id |-> 1, state |-> "Init", retries |-> 0]
  /\ sink = <<>>
  /\ stream = <<>>
  /\ peerSent = 0
  /\ handlerAlive = TRUE
  /\ handled = <<>>
  /\ awareness = 0
  /\ subs = [s \in Subscribers |-> NoSub]
  /\ resets = 0
  /\ enqLog = <<>>
  /\ cleared = {}
  /\ firedBeforeReset = {}

\* The sync plugin does not touch collab-database or the history plugin.
DbUnused ==
  /\ input = Unused
  /\ output = Unused
  /\ row_map = Unused
  /\ block = Unused
  /\ lastSet = Unused
  /\ store = Unused
  /\ lock = Unused
  /\ hist = Unused

\* Nor the id generator, the user database or the children map; the mirror
\* of the sync state on the local collab has a specification of its own.
ExtUnused ==
  /\ ID_GEN = Unused
  /\ id_lock = Unused
  /\ callers = Unused
  /\ user_database = Unused
  /\ scripts = Unused
  /\ children = Unused
  /\ reference = Unused
  /\ collab = Unused
  /\ mirror = Unused

Init == SyncInit /\ DbUnused /\ ExtUnused

\* ------------------------------------------------------------------ actions

\* plugin.rs:110-124  receive_local_update: clone the arguments and spawn a
\* task; nothing is enqueued by the callback itself.
ReceiveLocalUpdate(u) ==
  /\ task' = [task EXCEPT ![u] = "spawned"]
  /\ strong' = CaptureWeak(strong)

\* A transaction on the substrate: the update becomes part of the document and
\* the local-update observer runs for it when the origin is local.
Transact(origin, u) ==
  /\ doc' = doc \cup {u}
  /\ IF ObserverFires(origin) /\ pluginAlive
       THEN ReceiveLocalUpdate(u)
       ELSE UNCHANGED <<task, strong>>

\* A local mutation is committed.
LocalCommit(limit) ==
  /\ pluginAlive
  /\ nextLocal <= limit
  /\ Transact("local", nextLocal)
  /\ nextLocal' = nextLocal + 1
  /\ UNCHANGED <<pluginAlive, inited, sync_queue, sink, stream, peerSent,
                 handlerAlive, handled, awareness, subs, resets, enqLog, cleared,
                 firedBeforeReset>>
  /\ UNCHANGED <<dbVars, extVars>>

\* plugin.rs:116-117  the spawned task starts and upgrades its Weak.
TaskUpgrade(u) ==
  /\ task[u] = "spawned"
  /\ IF UpgradeSucceeds(strong)
       THEN task' = [task EXCEPT ![u] = "upgraded"] /\ strong' = strong + 1
       ELSE task' = [task EXCEPT ![u] = "noop"] /\ strong' = strong
  /\ UNCHANGED <<doc, nextLocal, pluginAlive, inited, sync_queue, sink, stream,
                 peerSent, handlerAlive, handled, awareness, subs, resets, enqLog,
                 cleared, firedBeforeReset>>
  /\ UNCHANGED <<dbVars, extVars>>

\* plugin.rs:118-122  the task builds the payload, calls queue_msg and drops
\* the Arc it upgraded.
TaskQueueMsg(u) ==
  /\ task[u] = "upgraded"
  /\ LET build == [id \in MsgIdSpace |->
                     ClientUpdateRequest("local", ObjectId, id, UpdatePayload(u))]
         q1 == QueueMsg(sync_queue, build)
         q2 == Release(q1, strong)
     IN /\ sync_queue' = q2
        /\ enqLog' = Append(enqLog, [id |-> sync_queue.next_id,
                                    msg |-> build[sync_queue.next_id]])
        /\ cleared' = cleared \cup (MsgIds(q1.pending) \ MsgIds(q2.pending))
        /\ subs' = Broadcast(sync_queue.state, q2.state, subs)
  /\ task' = [task EXCEPT ![u] = "queued"]
  /\ strong' = strong - 1
  /\ UNCHANGED <<doc, nextLocal, pluginAlive, inited, sink, stream, peerSent,
                 handlerAlive, handled, awareness, resets, firedBeforeReset>>
  /\ UNCHANGED <<dbVars, extVars>>

\* plugin.rs:106-108  did_init: notify(awareness) starts the handshake by
\* queueing the first SyncStep1.
DidInit ==
  /\ pluginAlive
  /\ ~inited
  /\ inited' = TRUE
  /\ LET build == [id \in MsgIdSpace |->
                     ClientUpdateRequest("local", ObjectId, id,
                                         [kind |-> "SyncStep1", updates |-> {}])]
         q1 == QueueMsg(sync_queue, build)
     IN /\ sync_queue' = q1
        /\ enqLog' = Append(enqLog, [id |-> sync_queue.next_id,
                                    msg |-> build[sync_queue.next_id]])
        /\ subs' = Broadcast(sync_queue.state, q1.state, subs)
  /\ UNCHANGED <<doc, nextLocal, pluginAlive, strong, task, sink, stream,
                 peerSent, handlerAlive, handled, awareness, resets, cleared,
                 firedBeforeReset>>
  /\ UNCHANGED <<dbVars, extVars>>

\* plugin.rs:126-128  reset: self.sync_queue.clear()
Reset(limit) ==
  /\ pluginAlive
  /\ resets < limit
  /\ resets' = resets + 1
  /\ sync_queue' = Clear(sync_queue)
  /\ cleared' = cleared \cup MsgIds(sync_queue.pending)
  /\ subs' = Broadcast(sync_queue.state, "Init", subs)
  /\ firedBeforeReset' = {u \in Updates : task[u] # "none"}
  /\ UNCHANGED <<doc, nextLocal, pluginAlive, strong, task, inited, sink,
                 stream, peerSent, handlerAlive, handled, awareness, enqLog>>
  /\ UNCHANGED <<dbVars, extVars>>

\* The plugin is dropped: its Arc<SyncQueue> is released.
DropPlugin ==
  /\ pluginAlive
  /\ pluginAlive' = FALSE
  /\ strong' = strong - 1
  /\ sync_queue' = Release(sync_queue, strong)
  /\ cleared' = cleared \cup (MsgIds(sync_queue.pending) \ MsgIds(sync_queue'.pending))
  /\ UNCHANGED <<doc, nextLocal, task, inited, sink, stream, peerSent,
                 handlerAlive, handled, awareness, subs, resets, enqLog, firedBeforeReset>>
  /\ UNCHANGED <<dbVars, extVars>>

\* Background sender: the sink accepts the head of the queue.
SinkSendOk ==
  /\ strong > 0
  /\ sync_queue.state # "Error"
  /\ sync_queue.pending # <<>>
  /\ sink' = Append(sink, [msg |-> Head(sync_queue.pending),
                           failed |-> sync_queue.retries])
  /\ LET rest == Tail(sync_queue.pending)
         q1 == [sync_queue EXCEPT !.pending = rest, !.retries = 0,
                                  !.state = IF rest = <<>> THEN "Synced" ELSE @]
     IN /\ sync_queue' = q1
        /\ subs' = Broadcast(sync_queue.state, q1.state, subs)
  /\ UNCHANGED <<doc, nextLocal, pluginAlive, strong, task, inited, stream,
                 peerSent, handlerAlive, handled, awareness, resets, enqLog, cleared,
                 firedBeforeReset>>
  /\ UNCHANGED <<dbVars, extVars>>

\* Background sender: the sink fails; the head stays queued and is retried
\* until the retry budget is used up, which turns the state to Error.
SinkSendFail ==
  /\ strong > 0
  /\ sync_queue.state # "Error"
  /\ sync_queue.pending # <<>>
  /\ LET q1 == RetryOrGiveUp(sync_queue)
     IN /\ sync_queue' = q1
        /\ subs' = Broadcast(sync_queue.state, q1.state, subs)
  /\ UNCHANGED <<doc, nextLocal, pluginAlive, strong, task, inited, sink,
                 stream, peerSent, handlerAlive, handled, awareness, resets, enqLog,
                 cleared, firedBeforeReset>>
  /\ UNCHANGED <<dbVars, extVars>>

\* The messages a peer can put on the incoming stream.
IncomingMessages ==
  {[kind |-> "Update", updates |-> {RemoteUpdate}]}
    \cup {[kind |-> k, updates |-> {}] : k \in {"SyncStep1", "Awareness", "Malformed"}}

\* The peer puts a message on the incoming stream.
PeerSend(m) ==
  /\ peerSent < MaxIncoming
  /\ peerSent' = peerSent + 1
  /\ stream' = Append(stream, m)
  /\ UNCHANGED <<doc, nextLocal, pluginAlive, strong, task, inited, sync_queue,
                 sink, handlerAlive, handled, awareness, subs, resets, enqLog, cleared,
                 firedBeforeReset>>
  /\ UNCHANGED <<dbVars, extVars>>

\* An incoming handler that gives up at the first message it cannot decode.
HandlerStopsOnMalformed(m) == m.kind # "Malformed"

\* The incoming handler goes on consuming whatever message it has handled.
HandlerSurvives(m) == TRUE

\* Incoming handler: consume the next message of the stream.
\*   Update     applied to the substrate under remote origin
\*   SyncStep1  answered with a SyncStep2 carrying the diff
\*   Awareness  updates the ephemeral peer state only
\*   Malformed  logged and discarded
HandleIncoming ==
  /\ strong > 0
  /\ handlerAlive
  /\ stream # <<>>
  /\ stream' = Tail(stream)
  /\ LET m == Head(stream) IN
     /\ handlerAlive' = HandlerSurvives(m)
     /\ handled' = Append(handled, m.kind)
     /\ CASE m.kind = "Update" ->
               /\ \E u \in m.updates : Transact("remote", u)
               /\ UNCHANGED <<sync_queue, enqLog, subs, awareness>>
          [] m.kind = "SyncStep1" ->
               LET build == [id \in MsgIdSpace |->
                               ClientUpdateRequest("local", ObjectId, id,
                                 [kind |-> "SyncStep2", updates |-> doc])]
                   q1 == QueueMsg(sync_queue, build)
               IN /\ sync_queue' = q1
                  /\ enqLog' = Append(enqLog, [id |-> sync_queue.next_id,
                                    msg |-> build[sync_queue.next_id]])
                  /\ subs' = Broadcast(sync_queue.state, q1.state, subs)
                  /\ UNCHANGED <<doc, task, strong, awareness>>
          [] m.kind = "Awareness" ->
               /\ awareness' = awareness + 1
               /\ UNCHANGED <<doc, task, strong, sync_queue, enqLog, subs>>
          [] OTHER ->
               UNCHANGED <<doc, task, strong, sync_queue, enqLog, subs, awareness>>
  /\ UNCHANGED <<nextLocal, pluginAlive, inited, sink, peerSent, resets, cleared,
                 firedBeforeReset>>
  /\ UNCHANGED <<dbVars, extVars>>

\* plugin.rs:94-97  subscribe_sync_state: a new receiver of the queue's watch
\* channel wrapped in WatchStream::new.
SubscribeSyncState(s) ==
  /\ pluginAlive
  /\ subs[s].status = "none"
  /\ \A r \in Subscribers : r < s => subs[r].status # "none"
  /\ subs' = [subs EXCEPT ![s] = [status |-> "new", atSub |-> sync_queue.state,
                                  last |-> "none", changed |-> FALSE]]
  /\ UNCHANGED <<doc, nextLocal, pluginAlive, strong, task, inited, sync_queue,
                 sink, stream, peerSent, handlerAlive, handled, awareness, resets, enqLog,
                 cleared, firedBeforeReset>>
  /\ UNCHANGED <<dbVars, extVars>>

\* A stream made with WatchStream::from_changes waits for the next change.
FirstPollFromChanges(sub) == sub.changed

\* plugin.rs:96  WatchStream::new(rx): the first poll of the stream is ready at
\* once, whether or not the value has changed since the receiver was made.
FirstPollReady(sub) == TRUE

\* plugin.rs:79  sync_state_stream.next(): the stream yields the value the
\* channel holds when it is polled and marks it seen; after the first item it
\* is ready only when the value has changed.
StreamNext(s) ==
  /\ \/ subs[s].status = "new" /\ FirstPollReady(subs[s])
     \/ subs[s].status = "polled" /\ subs[s].changed
  /\ subs' = [subs EXCEPT ![s] =
                [status |-> "polled", atSub |-> "none",
                 last |-> sync_queue.state, changed |-> FALSE]]
  /\ UNCHANGED <<doc, nextLocal, pluginAlive, strong, task, inited, sync_queue,
                 sink, stream, peerSent, handlerAlive, handled, awareness, resets, enqLog,
                 cleared, firedBeforeReset>>
  /\ UNCHANGED <<dbVars, extVars>>

\* The plugin, its spawned tasks, the background sender, reset and teardown.
Next ==
  \/ LocalCommit(MaxUpdates)
  \/ \E u \in Updates : TaskUpgrade(u)
  \/ \E u \in Updates : TaskQueueMsg(u)
  \/ DidInit
  \/ Reset(MaxResets)
  \/ DropPlugin
  \/ SinkSendOk
  \/ SinkSendFail

Spec == Init /\ [][Next]_vars

\* The sender keeps running while it has something to send.
FairSpec == Spec /\ WF_vars(SinkSendOk \/ SinkSendFail)

\* The plugin with a peer on the incoming stream.
PeerNext ==
  \/ LocalCommit(PeerMaxUpdates)
  \/ \E u \in Updates : TaskUpgrade(u)
  \/ \E u \in Updates : TaskQueueMsg(u)
  \/ SinkSendOk
  \/ SinkSendFail
  \/ \E m \in IncomingMessages : PeerSend(m)
  \/ HandleIncoming

PeerSpec == Init /\ [][PeerNext]_vars

\* The plugin with subscribers of its sync state.
SubNext ==
  \/ LocalCommit(SubMaxUpdates)
  \/ \E u \in Updates : TaskUpgrade(u)
  \/ \E u \in Updates : TaskQueueMsg(u)
  \/ SinkSendOk
  \/ SinkSendFail
  \/ Reset(SubMaxResets)
  \/ \E s \in Subscribers : SubscribeSyncState(s)
  \/ \E s \in Subscribers : StreamNext(s)

SubSpec == Init /\ [][SubNext]_vars

\* Every subscriber goes on polling its stream.
FairSubSpec == SubSpec /\ \A s \in Subscribers : WF_vars(StreamNext(s))

\* ------------------------------------------------------------------ claims

\* The update a queued Update message carries.
UpdateOf(msg) == CHOOSE u \in msg.payload.updates : TRUE

IsUpdateMsg(msg) == msg.payload.kind = "Update"

\* The messages the sink accepted, without the count of failed attempts.
SinkMsgs == [i \in DOMAIN sink |-> sink[i].msg]

\* C1: the message ids queue_msg hands to its build function strictly
\* increase over successive calls, whoever the callers are and however the
\* spawned tasks interleave, and every built message carries the id it was
\* handed; so no id repeats.
C1_MonotonicIds ==
  /\ \A i, j \in DOMAIN enqLog : i < j => enqLog[i].id < enqLog[j].id
  /\ \A i \in DOMAIN enqLog : enqLog[i].msg.msg_id = enqLog[i].id

\* Two calls of queue_msg have happened while another task is inside its call.
C1_Witness ==
  /\ Len(enqLog) >= 2
  /\ \E u \in LocalUpdates : task[u] = "upgraded"

\* C2: the sink receives the messages of the object in strictly increasing
\* msg_id order, also when sends fail and are retried.
C2_SinkFifo ==
  \A i, j \in DOMAIN sink : i < j => sink[i].msg.msg_id < sink[j].msg.msg_id

\* Two messages were delivered, one of them after a failed attempt.
C2_Witness ==
  /\ Len(sink) >= 2
  /\ \E i \in DOMAIN sink : sink[i].failed > 0

\* C3 (as claimed): the messages of local updates are enqueued in the order
\* in which the updates were committed: of two Update messages, the one
\* enqueued first carries the update committed first.
C3_CommitOrder ==
  \A i, j \in DOMAIN enqLog :
    (i < j /\ IsUpdateMsg(enqLog[i].msg) /\ IsUpdateMsg(enqLog[j].msg))
      => UpdateOf(enqLog[i].msg) < UpdateOf(enqLog[j].msg)

\* C4: without reset and teardown, once the queue has been drained and the
\* retry budget was never used up, every queued message has been delivered
\* exactly once, carrying the id allocated for it, and the state is Synced.
C4_RetryDelivers ==
  (/\ resets = 0
   /\ strong > 0
   /\ enqLog # <<>>
   /\ sync_queue.pending = <<>>
   /\ sync_queue.state # "Error")
  => /\ sync_queue.state = "Synced"
     /\ SinkMsgs = [i \in DOMAIN enqLog |-> enqLog[i].msg]
     /\ \A i \in DOMAIN sink : sink[i].msg.msg_id = enqLog[i].id

\* One local update was queued, the sink failed twice and then succeeded.
C4_Witness ==
  /\ Len(enqLog) = 1
  /\ IsUpdateMsg(enqLog[1].msg)
  /\ Len(sink) = 1
  /\ sink[1].failed = 2
  /\ sink[1].msg.msg_id = enqLog[1].id
  /\ sync_queue.state = "Synced"


Delivered(id) == \E i \in DOMAIN sink : sink[i].msg.msg_id = id

\* C5: a queued message is never lost without trace.  Whatever was enqueued
\* is still pending, was delivered, or was dropped by clear() or with the
\* queue itself; a pending message is eventually delivered or dropped that
\* way, unless the state becomes Error; and the state Error is left only by
\* a call of reset().
C5_NeverSilentlyDropped ==
  /\ [](\A i \in DOMAIN enqLog :
          \/ enqLog[i].id \in MsgIds(sync_queue.pending)
          \/ Delivered(enqLog[i].id)
          \/ enqLog[i].id \in cleared)
  /\ \A id \in MsgIdSpace :
       (id \in MsgIds(sync_queue.pending))
         ~> (Delivered(id) \/ id \in cleared \/ sync_queue.state = "Error")
  /\ [][sync_queue.state = "Error"
          => (sync_queue'.state = "Error" \/ resets' # resets)]_vars

\* The retry budget was used up with a message pending; another message was
\* delivered before, and one was dropped by reset().
C5_Witness ==
  /\ sync_queue.state = "Error"
  /\ sync_queue.pending # <<>>
  /\ sink # <<>>
  /\ cleared # {}

\* C6 (as claimed): reset() also disposes of the messages of the local
\* updates whose callback fired before it: none of them is in the outbound
\* queue afterwards.
C6_ResetDropsFiredUpdates ==
  \A i \in DOMAIN sync_queue.pending :
    IsUpdateMsg(sync_queue.pending[i]) =>
      UpdateOf(sync_queue.pending[i]) \notin firedBeforeReset

\* What reset() does do: the step itself leaves the queue empty, the state
\* Init and the document as it was.
ResetPostcondition ==
  [][resets' # resets =>
       (sync_queue'.pending = <<>> /\ sync_queue'.state = "Init" /\ doc' = doc)]_vars

\* C7: a task that has not started yet holds no strong reference, so only the
\* plugin and the tasks inside their call keep the queue alive; a task that
\* finds the queue gone ends without enqueueing anything, and a task that
\* finds it alive enqueues exactly one message for its update.
C7_WeakCallback ==
  /\ strong = (IF pluginAlive THEN 1 ELSE 0)
                + Cardinality({u \in Updates : task[u] = "upgraded"})
  /\ \A u \in Updates :
       LET n == Cardinality({i \in DOMAIN enqLog :
                               /\ IsUpdateMsg(enqLog[i].msg)
                               /\ UpdateOf(enqLog[i].msg) = u})
       IN IF task[u] = "queued" THEN n = 1 ELSE n = 0

\* The queue is gone; one task found it alive and enqueued its message,
\* another started after the teardown and did nothing.
C7_Witness ==
  /\ strong = 0
  /\ \E u, v \in LocalUpdates : task[u] = "queued" /\ task[v] = "noop"

\* C8: applying an incoming Update never makes the plugin enqueue a message
\* for it: no task is spawned for the peer's update, every Update message
\* ever enqueued carries a local update, and there are at most as many of
\* them as local updates were committed.
C8_NoEcho ==
  /\ task[RemoteUpdate] = "none"
  /\ \A i \in DOMAIN enqLog :
       IsUpdateMsg(enqLog[i].msg) => UpdateOf(enqLog[i].msg) \in LocalUpdates
  /\ Cardinality({i \in DOMAIN enqLog : IsUpdateMsg(enqLog[i].msg)}) <= nextLocal - 1

\* The peer's update was applied twice and a local update was committed and
\* delivered; the queue is empty and no task is left to run.
C8_Witness ==
  /\ RemoteUpdate \in doc
  /\ handled = <<"Update", "Update">>
  /\ \E i \in DOMAIN sink : IsUpdateMsg(sink[i].msg)
  /\ sync_queue.pending = <<>>
  /\ \A u \in Updates : task[u] \in {"none", "queued"}

\* C9: consuming a malformed incoming message changes neither the document
\* nor the outbound queue nor the sync state nor anything else of the plugin,
\* and the handler is still consuming afterwards; no incoming message stops
\* the handler.
C9_MalformedDiscarded ==
  /\ [][(/\ stream # <<>>
         /\ Head(stream).kind = "Malformed"
         /\ handled' # handled)
        => (/\ doc' = doc
            /\ sync_queue' = sync_queue
            /\ task' = task
            /\ awareness' = awareness
            /\ enqLog' = enqLog
            /\ stream' = Tail(stream)
            /\ handlerAlive')]_vars
  /\ []handlerAlive

\* A malformed message was consumed first and the Update after it was applied.
C9_Witness ==
  /\ handled = <<"Malformed", "Update">>
  /\ RemoteUpdate \in doc
  /\ handlerAlive

\* C10 (as claimed): the first value a subscriber observes is the sync state
\* that was current when it subscribed.
C10_FirstIsStateAtSubscription ==
  [][\A s \in Subscribers :
       (subs[s].status = "new" /\ subs'[s].status = "polled")
         => subs'[s].last = subs[s].atSub]_vars

\* C10 (amended): the first value a subscriber observes is the sync state
\* current when it first polls its stream, without waiting for a transition;
\* that is the state at subscription time when no transition happened in
\* between.  Every subscriber that goes on polling eventually has observed
\* the state that is then current.
C10_FirstIsCurrentAtPoll ==
  /\ [][\A s \in Subscribers :
          (subs[s].status = "new" /\ subs'[s].status = "polled")
            => /\ subs'[s].last = sync_queue.state
               /\ (~subs[s].changed => subs'[s].last = subs[s].atSub)]_vars
  /\ \A s \in Subscribers :
       (subs[s].status # "none")
         ~> (subs[s].status = "polled" /\ subs[s].last = sync_queue.state)

\* Both subscribers have observed the current state, one that only a
\* transition after the construction of the queue could produce.
C10_Witness ==
  /\ \A s \in Subscribers : subs[s].status = "polled" /\ subs[s].last = sync_queue.state
  /\ sync_queue.state = "Synced"

\* ------------------------------------------------------------------------
\* collab-database: CreateViewParamsValidator (entity.rs)
\* ------------------------------------------------------------------------

\* How many distinct non-empty identifiers and names the inputs draw from.
MaxIdNames == 2

\* Strings for database_id and view_id: the empty string and non-empty ones.
DatabaseIds == {""} \cup {"d" \o ToString(i) : i \in 1..MaxIdNames}
ViewIds == {""} \cup {"v" \o ToString(i) : i \in 1..MaxIdNames}
ViewNames == {""} \cup {"name" \o ToString(i) : i \in 1..(MaxIdNames - 1)}

\* entity.rs:81-101  the fields of CreateViewParams that a caller sets; the
\* remaining ones are carried inside the record the same way.
DatabaseLayouts == {"Grid", "Board", "Calendar"}
CreateViewParamsSet ==
  [database_id : DatabaseIds, view_id : ViewIds, name : ViewNames,
   layout : DatabaseLayouts]

\* Result<T, DatabaseError>
Ok(v) == [tag |-> "Ok", value |-> v]
Err(e) == [tag |-> "Err", error |-> e]

\* validate with the two checks in the other order.
ValidateViewIdFirst(params) ==
  IF params.view_id = "" THEN Err("InvalidViewID")
  ELSE IF params.database_id = "" THEN Err("InvalidDatabaseID")
  ELSE Ok(params)

\* entity.rs:176-186  CreateViewParamsValidator::validate
Validate(params) ==
  IF params.database_id = "" THEN Err("InvalidDatabaseID")
  ELSE IF params.view_id = "" THEN Err("InvalidViewID")
  ELSE Ok(params)

\* A caller holds any CreateViewParams.
ValidateInit ==
  /\ SyncInit /\ ExtUnused
  /\ input \in CreateViewParamsSet
  /\ output = Pending
  /\ row_map = Unused /\ block = Unused /\ lastSet = Unused
  /\ store = Unused /\ lock = Unused /\ hist = Unused

\* entity.rs:176-186  one call of validate on the caller's params.
CallValidate ==
  /\ output = Pending
  /\ output' = {Validate(input)}
  /\ UNCHANGED <<syncVars, extVars, input, row_map, block, lastSet, store, lock, hist>>

ValidateNext == CallValidate

ValidateSpec == ValidateInit /\ [][ValidateNext]_vars

\* C11: validate returns Err(InvalidDatabaseID) when database_id is empty
\* (also when view_id is empty too), otherwise Err(InvalidViewID) when view_id
\* is empty, otherwise Ok with the params unchanged; the outcome is the same
\* for any two params that agree on whether each of the two ids is empty.
C11_ValidateOrder ==
  \A r \in output :
    /\ (input.database_id = "") => r = Err("InvalidDatabaseID")
    /\ (input.database_id # "" /\ input.view_id = "") => r = Err("InvalidViewID")
    /\ (input.database_id # "" /\ input.view_id # "") => r = Ok(input)
    /\ \A p \in CreateViewParamsSet :
         ((p.database_id = "") = (input.database_id = "")
            /\ (p.view_id = "") = (input.view_id = ""))
           => Validate(p).tag = r.tag
              /\ (r.tag = "Err" => Validate(p) = r)

\* validate has returned for params whose two ids are both empty.
C11_Witness ==
  /\ input.database_id = "" /\ input.view_id = ""
  /\ output = {Err("InvalidDatabaseID")}

\* ------------------------------------------------------------------------
\* collab-database: rows (rows/row.rs)
\* ------------------------------------------------------------------------

\* A map of the document is a function from the keys it holds to their
\* values; Option<T> is held as a set: {} is None and {v} is Some(v).
EmptyMap == [k \in {} |-> {}]
Get(m, k) == IF k \in DOMAIN m THEN {m[k]} ELSE {}
Insert(m, k, v) == [x \in DOMAIN m \cup {k} |-> IF x = k THEN v ELSE m[x]]
GetOrInsertMap(m, k) == IF k \in DOMAIN m THEN m ELSE Insert(m, k, EmptyMap)

\* A value of the document: a map, or anything that is not a map (such as
\* what is left where an entity was deleted).
YMap(m) == [kind |-> "YMap", map |-> m]
NotAMap == [kind |-> "Any", map |-> EmptyMap]
ToYMap(value) == IF value.kind = "YMap" THEN {value.map} ELSE {}

\* An i64 is held as its two 32-bit halves, each read as a signed number:
\* the value is hi * 2^32 + (lo mod 2^32).  `h as i64` of an i32 h extends
\* the sign; `x as i32` of an i64 x keeps the low half.
MaxI32 == 2147483647
MinI32 == -MaxI32 - 1
I64Of(h) == [hi |-> IF h < 0 THEN -1 ELSE 0, lo |-> h]
AsI32(x) == x.lo

\* row.rs:120-121  the defaults of Row::new, also applied by the reads.
DefaultHeight == 60
DefaultVisibility == TRUE

\* Cell::fill_map_ref: every attribute of the cell is inserted into the map
\* of the cell; the attributes the map held under other keys stay.
FillCell(cell_map, cell) ==
  [k \in DOMAIN cell_map \cup DOMAIN cell |->
     IF k \in DOMAIN cell THEN cell[k] ELSE cell_map[k]]

\* Cells::fill_map_ref: for every field of `cells` the map of its cell is
\* located or created, then filled; the cells of other fields stay.
FillCells(cells_map, cells) ==
  [f \in DOMAIN cells_map \cup DOMAIN cells |->
     IF f \in DOMAIN cells
       THEN FillCell(IF f \in DOMAIN cells_map THEN cells_map[f] ELSE EmptyMap,
                     cells[f])
       ELSE cells_map[f]]

\* row.rs:133-142  RowBuilder::new
RowBuilderNew(id, block_id, m) == Insert(Insert(m, "id", id), "bid", block_id)

\* row.rs:166-168  the scalar setters of RowUpdate.
SetVisibility(m, v) == Insert(m, "visibility", v)
SetHeight(m, h) == Insert(m, "height", I64Of(h))
SetCreatedAt(m, t) == Insert(m, "created_at", t)

\* set_cells putting a new map under ROW_CELLS instead of locating the one
\* that is there.
SetCellsIntoNewMap(m, cells) == Insert(m, "cells", FillCells(EmptyMap, cells))

\* row.rs:170-174  RowUpdate::set_cells
SetCells(m, cells) ==
  LET located == GetOrInsertMap(m, "cells")
  IN  Insert(located, "cells", FillCells(located["cells"], cells))

\* row.rs:176-184  RowUpdate::update_cells with a closure that inserts the
\* cells of `cells` through the CellsUpdate.
UpdateCells(m, cells) ==
  LET located == GetOrInsertMap(m, "cells")
  IN  Insert(located, "cells", FillCells(located["cells"], cells))

\* The cast taking the high half of the i64.
HeightHighHalf(h) == h.hi

\* row.rs:257  height as i32
HeightOf(h) == AsI32(h)

\* Missing visibility read as bool::default().
VisibilityOrFalse(v) == IF v = {} THEN FALSE ELSE CHOOSE b \in v : TRUE

\* row.rs:238-240  .unwrap_or(true)
VisibilityOr(v) == IF v = {} THEN DefaultVisibility ELSE CHOOSE b \in v : TRUE

\* row.rs:235-261  row_from_map_ref; `now` is chrono::Utc::now().timestamp()
RowFromMapRef(m, now) ==
  IF Get(m, "id") = {} \/ Get(m, "bid") = {} THEN {}
  ELSE {[id |-> m["id"],
         block_id |-> m["bid"],
         cells |-> IF "cells" \in DOMAIN m THEN m["cells"] ELSE EmptyMap,
         height |-> HeightOf(IF "height" \in DOMAIN m THEN m["height"] ELSE I64Of(DefaultHeight)),
         visibility |-> VisibilityOr(Get(m, "visibility")),
         created_at |-> IF "created_at" \in DOMAIN m THEN m["created_at"] ELSE now]}

\* row.rs:221-224  row_from_value
RowFromValue(value, now) ==
  IF ToYMap(value) = {} THEN {} ELSE RowFromMapRef(value.map, now)

\* A read that takes the first cell of the row when the field has none.
CellFromMapRefAnyCell(m, field_id) ==
  IF "cells" \notin DOMAIN m \/ DOMAIN m["cells"] = {} THEN {}
  ELSE IF field_id \in DOMAIN m["cells"] THEN {m["cells"][field_id]}
  ELSE {m["cells"][CHOOSE f \in DOMAIN m["cells"] : TRUE]}

\* row.rs:228-232  cell_from_map_ref
CellFromMapRef(m, field_id) ==
  IF "cells" \notin DOMAIN m THEN {}
  ELSE IF field_id \notin DOMAIN m["cells"] THEN {}
  ELSE {m["cells"][field_id]}

\* Bounds of the row specifications: the number of setters applied in one
\* transaction and the largest timestamp.
MaxRowOps == 2
MaxTimestamp == 2

\* script.rs:146-148  the fields of the test database
FieldIds == {"f1", "f2", "f3"}

\* The values the rows are built from.  A Cell is a map of attributes; Cells
\* maps the id of a field to the cell of that field.
RowIds == {1, 2, 3}
BlockIds == {1}
Heights == {MinI32, -1, DefaultHeight, MaxI32}
Timestamps == 1..MaxTimestamp
CellKeys == {"data", "field_type"}
CellData == {"x", "y"}
MapsOver(keys, values) == UNION {[d -> values] : d \in SUBSET keys}
CellSet == MapsOver(CellKeys, CellData)
CellsOver(fields) == MapsOver(fields, CellSet)

\* What the setters applied so far were given: per scalar key the argument
\* of the last setter, for the cells the argument of the last set_cells or
\* update_cells, and per cell attribute the last datum written to it.
NothingSet ==
  [n |-> 0, visibility |-> {}, height |-> {}, created_at |-> {},
   cells |-> {}, attrs |-> EmptyMap]
AttrsOf(cells) ==
  [p \in {<<f, k>> : f \in DOMAIN cells, k \in CellKeys} \cap
         {q \in FieldIds \X CellKeys : q[2] \in DOMAIN cells[q[1]]}
     |-> cells[p[1]][p[2]]]
NoteCells(ls, cells) ==
  [ls EXCEPT !.n = @ + 1,
             !.cells = {cells},
             !.attrs = [p \in DOMAIN ls.attrs \cup DOMAIN AttrsOf(cells) |->
                          IF p \in DOMAIN AttrsOf(cells) THEN AttrsOf(cells)[p]
                          ELSE ls.attrs[p]]]

\* row.rs:133-142  a row created by RowBuilder::new in an empty map; the
\* transaction of the builder is open.
RowInit ==
  /\ SyncInit /\ ExtUnused
  /\ \E id \in RowIds, block_id \in BlockIds :
       /\ input = [id |-> id, block_id |-> block_id, touched |-> {}]
       /\ row_map = YMap(RowBuilderNew(id, block_id, EmptyMap))
  /\ lastSet = NothingSet
  /\ output = Pending
  /\ block = Unused /\ store = Unused /\ lock = Unused /\ hist = Unused

\* row.rs:144-151, 166-168  one scalar setter inside RowBuilder::update
ApplySetVisibility ==
  /\ output = Pending /\ lastSet.n < MaxRowOps
  /\ \E v \in BOOLEAN :
       /\ row_map' = YMap(SetVisibility(row_map.map, v))
       /\ lastSet' = [lastSet EXCEPT !.n = @ + 1, !.visibility = {v}]
  /\ UNCHANGED <<syncVars, extVars, input, output, block, store, lock, hist>>

ApplySetHeight ==
  /\ output = Pending /\ lastSet.n < MaxRowOps
  /\ \E h \in Heights :
       /\ row_map' = YMap(SetHeight(row_map.map, h))
       /\ lastSet' = [lastSet EXCEPT !.n = @ + 1, !.height = {h}]
  /\ UNCHANGED <<syncVars, extVars, input, output, block, store, lock, hist>>

ApplySetCreatedAt ==
  /\ output = Pending /\ lastSet.n < MaxRowOps
  /\ \E t \in Timestamps :
       /\ row_map' = YMap(SetCreatedAt(row_map.map, t))
       /\ lastSet' = [lastSet EXCEPT !.n = @ + 1, !.created_at = {t}]
  /\ UNCHANGED <<syncVars, extVars, input, output, block, store, lock, hist>>

\* row.rs:170-174  set_cells inside RowBuilder::update
ApplySetCells ==
  /\ output = Pending /\ lastSet.n < MaxRowOps
  /\ \E cells \in CellsOver({"f1", "f2"}) :
       /\ row_map' = YMap(SetCells(row_map.map, cells))
       /\ lastSet' = NoteCells(lastSet, cells)
       /\ input' = [input EXCEPT !.touched = @ \cup DOMAIN cells]
  /\ UNCHANGED <<syncVars, extVars, output, block, store, lock, hist>>

\* row.rs:176-184  update_cells inside RowBuilder::update
ApplyUpdateCells ==
  /\ output = Pending /\ lastSet.n < MaxRowOps
  /\ \E cells \in CellsOver({"f1", "f2"}) :
       /\ row_map' = YMap(UpdateCells(row_map.map, cells))
       /\ lastSet' = NoteCells(lastSet, cells)
       /\ input' = [input EXCEPT !.touched = @ \cup DOMAIN cells]
  /\ UNCHANGED <<syncVars, extVars, output, block, store, lock, hist>>

\* row.rs:186-188  RowUpdate::done: the row read back inside the transaction
RowUpdateDone ==
  /\ output = Pending
  /\ \E now \in Timestamps : output' = {RowFromMapRef(row_map.map, now)}
  /\ UNCHANGED <<syncVars, extVars, input, row_map, block, lastSet, store, lock, hist>>

\* row.rs:221-224  a later read of the row from the document
FreshRead ==
  /\ output # Pending
  /\ \E now \in Timestamps : output' = {RowFromValue(row_map, now)}
  /\ UNCHANGED <<syncVars, extVars, input, row_map, block, lastSet, store, lock, hist>>

RowNext ==
  \/ ApplySetVisibility
  \/ ApplySetHeight
  \/ ApplySetCreatedAt
  \/ ApplySetCells
  \/ ApplyUpdateCells
  \/ RowUpdateDone
  \/ FreshRead

RowSpec == RowInit /\ [][RowNext]_vars

\* The value a scalar field of a read row must have: the argument of the last
\* setter of the field, or the value the field had before when never set.
LastOr(set, previous) == IF set = {} THEN previous ELSE CHOOSE v \in set : TRUE

StoredHeights == {I64Of(h) : h \in Heights} \cup {[hi |-> 1, lo |-> 0]}

\* The maps a row may be read from: any subset of the keys of a row, each with
\* any value of its type.
StoredRowMaps ==
  {m \in MapsOver({"id", "bid"}, RowIds) : "bid" \in DOMAIN m => m["bid"] \in BlockIds}
StoredRowAttrs ==
  [visibility : {{}} \cup {{v} : v \in BOOLEAN},
   height : {{}} \cup {{h} : h \in StoredHeights},
   created_at : {{}} \cup {{t} : t \in Timestamps},
   cells : {{}} \cup {{c} : c \in CellsOver({"f1"})}]
WithAttr(m, k, option) == IF option = {} THEN m ELSE Insert(m, k, CHOOSE v \in option : TRUE)
StoredRow(m, a) ==
  WithAttr(WithAttr(WithAttr(WithAttr(m, "visibility", a.visibility),
                             "height", a.height),
                    "created_at", a.created_at),
           "cells", a.cells)

\* The document holds, where the row is looked up, a map with any of the keys
\* of a row, or no map.
ReadInit ==
  /\ SyncInit /\ ExtUnused
  /\ \/ row_map = NotAMap
     \/ \E m \in StoredRowMaps, a \in StoredRowAttrs : row_map = YMap(StoredRow(m, a))
  /\ output = Pending
  /\ input = Unused /\ block = Unused /\ lastSet = Unused
  /\ store = Unused /\ lock = Unused /\ hist = Unused

\* row.rs:221-224  one read of the row
ReadRow ==
  /\ output = Pending
  /\ \E now \in Timestamps : output' = {RowFromValue(row_map, now)}
  /\ UNCHANGED <<syncVars, extVars, input, row_map, block, lastSet, store, lock, hist>>

ReadNext == ReadRow

ReadSpec == ReadInit /\ [][ReadNext]_vars

\* C13: a read returns None when there is no map, or the map lacks id or
\* block_id; otherwise it returns a row, with visibility = true when the map
\* lacks visibility, height = 60 when it lacks height, and no cells when it
\* lacks cells.
C13_ReadDefaults ==
  \A r \in output :
    /\ row_map.kind # "YMap" => r = {}
    /\ "id" \notin DOMAIN row_map.map => r = {}
    /\ "bid" \notin DOMAIN row_map.map => r = {}
    /\ (row_map.kind = "YMap" /\ {"id", "bid"} \subseteq DOMAIN row_map.map) =>
         /\ Cardinality(r) = 1
         /\ \A row \in r :
              /\ "visibility" \notin DOMAIN row_map.map => row.visibility = TRUE
              /\ "height" \notin DOMAIN row_map.map => row.height = 60
              /\ "cells" \notin DOMAIN row_map.map => DOMAIN row.cells = {}

\* A map with only id and block_id has been read as a row with the defaults.
C13_Witness ==
  /\ row_map.kind = "YMap"
  /\ DOMAIN row_map.map = {"id", "bid"}
  /\ \E r \in output : \E row \in r :
       row.visibility = TRUE /\ row.height = 60 /\ DOMAIN row.cells = {}

\* row.rs:101-108  the rows a caller may write
RowSet ==
  [id : RowIds, block_id : BlockIds, cells : CellsOver({"f1", "f2"}),
   height : Heights, visibility : BOOLEAN, created_at : Timestamps]

\* row.rs:133-152  a row written into map m through RowBuilder::new, one
\* update that applies the setters, and done.
WriteRow(m, row) ==
  SetCells(SetCreatedAt(SetVisibility(SetHeight(
    RowBuilderNew(row.id, row.block_id, m), row.height), row.visibility),
    row.created_at), row.cells)

\* A caller holds any Row; the document holds a new, empty map for it.
RoundTripInit ==
  /\ SyncInit /\ ExtUnused
  /\ input \in RowSet
  /\ row_map = YMap(EmptyMap)
  /\ output = Pending
  /\ block = Unused /\ lastSet = Unused
  /\ store = Unused /\ lock = Unused /\ hist = Unused

\* row.rs:133-152  the row is written
WriteInput ==
  /\ row_map.map = EmptyMap
  /\ row_map' = YMap(WriteRow(row_map.map, input))
  /\ UNCHANGED <<syncVars, extVars, input, output, block, lastSet, store, lock, hist>>

\* row.rs:235-261  the written row is read
ReadWritten ==
  /\ row_map.map # EmptyMap
  /\ output = Pending
  /\ \E now \in Timestamps : output' = {RowFromMapRef(row_map.map, now)}
  /\ UNCHANGED <<syncVars, extVars, input, row_map, block, lastSet, store, lock, hist>>

RoundTripNext == WriteInput \/ ReadWritten

RoundTripSpec == RoundTripInit /\ [][RoundTripNext]_vars

\* C14: a Row written through RowBuilder and the setters and read with
\* row_from_map_ref is read as the Row that was written.
C14_RowRoundTrip == \A r \in output : r = {input}

\* A row with the smallest i32 as its height, hidden, with a cell, has been
\* written and read.
C14_Witness ==
  /\ output # Pending
  /\ input.height = MinI32 /\ ~input.visibility /\ DOMAIN input.cells # {}
  /\ \A r \in output : \A row \in r : row.height = MinI32

\* How many rows the database of the cell reads holds at most.
MaxRows == 2

\* script.rs:146-180  the cells of a created row: a text cell for each field
\* of any subset of the fields of the database.
TextCell(d) == [data |-> d]
CreatedCells == {[f \in fields |-> TextCell(d)] : fields \in SUBSET FieldIds, d \in CellData}

\* script.rs:146-180  a row as create_database makes it, with its cells
CreatedRow(id, cells) ==
  [id |-> id, block_id |-> 1, cells |-> cells, height |-> 0, visibility |-> TRUE,
   created_at |-> 1]

\* A database with the three fields and no row yet.
CellInit ==
  /\ SyncInit /\ ExtUnused
  /\ input = EmptyMap
  /\ block = EmptyMap
  /\ output = Pending
  /\ row_map = Unused /\ lastSet = Unused
  /\ store = Unused /\ lock = Unused /\ hist = Unused

\* script.rs:90-99  CreateRow: the next row is written into a new map of the
\* block.
CreateRow ==
  /\ Cardinality(DOMAIN block) < MaxRows
  /\ \E cells \in CreatedCells :
       LET id == Cardinality(DOMAIN block) + 1
       IN  /\ input' = Insert(input, id, CreatedRow(id, cells))
           /\ block' = Insert(block, id, YMap(WriteRow(EmptyMap, CreatedRow(id, cells))))
  /\ UNCHANGED <<syncVars, extVars, output, row_map, lastSet, store, lock, hist>>

\* row.rs:228-232  the cell of one field of one row is read
GetCell ==
  /\ \E id \in DOMAIN block, f \in FieldIds :
       output' = {[row |-> id, field |-> f, cell |-> CellFromMapRef(block[id].map, f)]}
  /\ UNCHANGED <<syncVars, extVars, input, row_map, block, lastSet, store, lock, hist>>

CellNext == CreateRow \/ GetCell

CellSpec == CellInit /\ [][CellNext]_vars

MaxDataRows == 2
MaxDataViews == 2

\* The id generator: a process-wide counter, held as the last id it issued;
\* every call issues the next one.
NextId(id_gen) == [id |-> id_gen + 1, id_gen |-> id_gen + 1]
GenDatabaseId(id_gen) == NextId(id_gen)
GenRowId(id_gen) == NextId(id_gen)
GenDatabaseViewId(id_gen) == NextId(id_gen)

\* The content of the rows and of the views of a source database: two kinds
\* of each, which differ in every field the transform copies.
SourceRowKinds ==
  {[cells |-> EmptyMap, height |-> 0, visibility |-> TRUE, created_at |-> 1],
   [cells |-> [f1 |-> TextCell("x")], height |-> DefaultHeight, visibility |-> FALSE,
    created_at |-> 2]}
SourceViewKinds ==
  {[name |-> "grid", layout |-> "Grid", layout_settings |-> "none",
    filters |-> <<>>, group_settings |-> <<>>, sorts |-> <<>>,
    field_settings |-> EmptyMap, created_at |-> 1, modified_at |-> 1],
   [name |-> "board", layout |-> "Board", layout_settings |-> "board settings",
    filters |-> <<"filter">>, group_settings |-> <<"group">>, sorts |-> <<"sort">>,
    field_settings |-> [f1 |-> "hidden"], created_at |-> 1, modified_at |-> 2]}
SourceFields == {<<>>, <<"f1", "f2", "f3">>}
SeqsUpTo(S, n) == UNION {[1..k -> S] : k \in 0..n}

\* The ids of a source database were issued by the generator before the
\* call: 1 for the database, then its rows, then its views; then the id of
\* another view, and the target id the caller supplies.
SourceDatabaseId == 1
SourceRowId(i) == SourceDatabaseId + i
SourceViewId(j) == SourceDatabaseId + MaxDataRows + j
OtherViewId == SourceViewId(MaxDataViews + 1)
TargetViewId == OtherViewId + 1
IssuedBefore == TargetViewId

\* DatabaseData: the snapshot of a source database.
DatabaseData(rows, views, fields) ==
  [database_id |-> SourceDatabaseId,
   rows |-> [i \in 1..Len(rows) |->
               [id |-> SourceRowId(i), block_id |-> 1, cells |-> rows[i].cells,
                height |-> rows[i].height, visibility |-> rows[i].visibility,
                created_at |-> rows[i].created_at]],
   views |-> [j \in 1..Len(views) |->
                [id |-> SourceViewId(j), database_id |-> SourceDatabaseId,
                 name |-> views[j].name, layout |-> views[j].layout,
                 layout_settings |-> views[j].layout_settings,
                 filters |-> views[j].filters,
                 group_settings |-> views[j].group_settings,
                 sorts |-> views[j].sorts,
                 field_settings |-> views[j].field_settings,
                 created_at |-> views[j].created_at,
                 modified_at |-> views[j].modified_at]],
   fields |-> fields]

\* A row of the copy that keeps the id of the source row.
CreateRowParamsKeepId(row, id, database_id, timestamp) ==
  [id |-> row.id, database_id |-> database_id,
   created_at |-> timestamp, modified_at |-> timestamp,
   cells |-> row.cells, height |-> row.height, visibility |-> row.visibility,
   row_position |-> "End"]

\* A row of the copy with the height of Row::new instead of the source's.
CreateRowParamsNewHeight(row, id, database_id, timestamp) ==
  [id |-> id, database_id |-> database_id,
   created_at |-> timestamp, modified_at |-> timestamp,
   cells |-> row.cells, height |-> DefaultHeight, visibility |-> row.visibility,
   row_position |-> "End"]

\* A row of the copy that keeps the created_at of the source row.
CreateRowParamsKeepCreatedAt(row, id, database_id, timestamp) ==
  [id |-> id, database_id |-> database_id,
   created_at |-> row.created_at, modified_at |-> timestamp,
   cells |-> row.cells, height |-> row.height, visibility |-> row.visibility,
   row_position |-> "End"]

\* entity.rs:213-222  the CreateRowParams made of one source row
CreateRowParamsOf(row, id, database_id, timestamp) ==
  [id |-> id, database_id |-> database_id,
   created_at |-> timestamp, modified_at |-> timestamp,
   cells |-> row.cells, height |-> row.height, visibility |-> row.visibility,
   row_position |-> "End"]

\* entity.rs:210-223  data.rows.into_iter().map(..).collect(): one
\* gen_row_id() per row, in the order of the rows.
RECURSIVE CreateRowParamsFrom(_, _, _, _)
CreateRowParamsFrom(rows, database_id, timestamp, id_gen) ==
  IF rows = <<>> THEN [params |-> <<>>, id_gen |-> id_gen]
  ELSE LET new == GenRowId(id_gen)
           rest == CreateRowParamsFrom(Tail(rows), database_id, timestamp, new.id_gen)
       IN  [params |-> <<CreateRowParamsOf(Head(rows), new.id, database_id, timestamp)>>
                         \o rest.params,
            id_gen |-> rest.id_gen]

\* The choice of the view id with the test inverted.
ViewIdOfOthers(view, database_view_id, new_database_view_id, id_gen) ==
  IF view.id # database_view_id
    THEN [id |-> new_database_view_id, id_gen |-> id_gen]
    ELSE GenDatabaseViewId(id_gen)

\* entity.rs:230-234  the view id of the copy of one source view
ViewIdOf(view, database_view_id, new_database_view_id, id_gen) ==
  IF view.id = database_view_id
    THEN [id |-> new_database_view_id, id_gen |-> id_gen]
    ELSE GenDatabaseViewId(id_gen)

\* entity.rs:228-245  the CreateViewParams made of one source view
CreateViewParamsOf(view, view_id, database_id, timestamp) ==
  [database_id |-> database_id, view_id |-> view_id,
   name |-> view.name, layout |-> view.layout,
   layout_settings |-> view.layout_settings, filters |-> view.filters,
   group_settings |-> view.group_settings, sorts |-> view.sorts,
   field_settings |-> view.field_settings,
   created_at |-> timestamp, modified_at |-> timestamp,
   deps_fields |-> <<>>, deps_field_setting |-> <<>>]

\* entity.rs:225-246  data.views.into_iter().map(..).collect()
RECURSIVE CreateViewParamsFrom(_, _, _, _, _, _)
CreateViewParamsFrom(views, database_view_id, new_database_view_id, database_id, timestamp, id_gen) ==
  IF views = <<>> THEN [params |-> <<>>, id_gen |-> id_gen]
  ELSE LET new == ViewIdOf(Head(views), database_view_id, new_database_view_id, id_gen)
           rest == CreateViewParamsFrom(Tail(views), database_view_id,
                                        new_database_view_id, database_id, timestamp,
                                        new.id_gen)
       IN  [params |-> <<CreateViewParamsOf(Head(views), new.id, database_id, timestamp)>>
                         \o rest.params,
            id_gen |-> rest.id_gen]

\* entity.rs:202-254  CreateDatabaseParams::from_database_data; `now` is what
\* timestamp() returns, id_gen the state of the generator at the call.
FromDatabaseData(data, database_view_id, new_database_view_id, now, id_gen) ==
  LET database == GenDatabaseId(id_gen)
      timestamp == now
      rows == CreateRowParamsFrom(data.rows, database.id, timestamp, database.id_gen)
      views == CreateViewParamsFrom(data.views, database_view_id, new_database_view_id,
                                    database.id, timestamp, rows.id_gen)
  IN  [database_id |-> database.id,
       rows |-> rows.params,
       fields |-> data.fields,
       views |-> views.params]

\* A caller holds the snapshot of any source database, the id of a view
\* (one of the source or not) and the id for the copy of that view.
DuplicateInit ==
  /\ SyncInit /\ ExtUnused
  /\ \E rows \in SeqsUpTo(SourceRowKinds, MaxDataRows),
        views \in SeqsUpTo(SourceViewKinds, MaxDataViews),
        fields \in SourceFields,
        database_view_id \in {SourceViewId(j) : j \in 1..MaxDataViews} \cup {OtherViewId} :
       input = [data |-> DatabaseData(rows, views, fields),
                database_view_id |-> database_view_id,
                new_database_view_id |-> TargetViewId,
                id_gen |-> IssuedBefore]
  /\ output = Pending
  /\ row_map = Unused /\ block = Unused /\ lastSet = Unused
  /\ store = Unused /\ lock = Unused /\ hist = Unused

\* entity.rs:202-254  one call of from_database_data, at any time
CallFromDatabaseData ==
  /\ output = Pending
  /\ \E now \in Timestamps :
       output' = {[now |-> now,
                   params |-> FromDatabaseData(input.data, input.database_view_id,
                                               input.new_database_view_id, now,
                                               input.id_gen)]}
  /\ UNCHANGED <<syncVars, extVars, input, row_map, block, lastSet, store, lock, hist>>

DuplicateNext == CallFromDatabaseData

DuplicateSpec == DuplicateInit /\ [][DuplicateNext]_vars

\* The positions of a sequence, and the ids the source database uses.
Positions(s) == 1..Len(s)
HasDesignatedView ==
  \E j \in Positions(input.data.views) : input.data.views[j].id = input.database_view_id

\* C16: the copy of a source view has the target id exactly when the source
\* view is the designated one; the copy of every other view has an id
\* generated by the call, different from the ids of the other copies; so when
\* the source holds the designated view, exactly one view of the copy has
\* the target id.
C16_DesignatedViewGetsTargetId ==
  \A r \in output :
    /\ \A j \in Positions(r.params.views) :
         /\ (input.data.views[j].id = input.database_view_id)
              <=> (r.params.views[j].view_id = input.new_database_view_id)
         /\ (input.data.views[j].id # input.database_view_id)
              => /\ r.params.views[j].view_id > input.id_gen
                 /\ \A k \in Positions(r.params.views) :
                      k # j => r.params.views[k].view_id # r.params.views[j].view_id
    /\ HasDesignatedView =>
         Cardinality({j \in Positions(r.params.views) :
                        r.params.views[j].view_id = input.new_database_view_id}) = 1

\* A source with two views, the second the designated one, was copied: the
\* second view of the copy has the target id, the first a generated one.
C16_Witness ==
  /\ Len(input.data.views) = 2
  /\ input.data.views[2].id = input.database_view_id
  /\ \E r \in output :
       /\ r.params.views[2].view_id = input.new_database_view_id
       /\ r.params.views[1].view_id > input.id_gen

C18_ContentPreserved ==
  \A r \in output :
    /\ Len(r.params.rows) = Len(input.data.rows)
    /\ Len(r.params.views) = Len(input.data.views)
    /\ Len(r.params.fields) = Len(input.data.fields)
    /\ r.params.fields = input.data.fields
    /\ \A i \in Positions(input.data.rows) :
         /\ r.params.rows[i].cells = input.data.rows[i].cells
         /\ r.params.rows[i].height = input.data.rows[i].height
         /\ r.params.rows[i].visibility = input.data.rows[i].visibility
    /\ \A j \in Positions(input.data.views) :
         /\ r.params.views[j].name = input.data.views[j].name
         /\ r.params.views[j].layout = input.data.views[j].layout
         /\ r.params.views[j].layout_settings = input.data.views[j].layout_settings
         /\ r.params.views[j].filters = input.data.views[j].filters
         /\ r.params.views[j].group_settings = input.data.views[j].group_settings
         /\ r.params.views[j].sorts = input.data.views[j].sorts
         /\ r.params.views[j].field_settings = input.data.views[j].field_settings

\* A source with fields, two rows of different heights and two views of
\* different layouts was copied.
C18_Witness ==
  /\ Len(input.data.fields) = 3
  /\ Len(input.data.rows) = 2 /\ Len(input.data.views) = 2
  /\ input.data.rows[1].height # input.data.rows[2].height
  /\ input.data.views[1].layout # input.data.views[2].layout
  /\ \E r \in output :
       /\ r.params.rows[1].height = 0 /\ r.params.rows[2].height = DefaultHeight
       /\ r.params.views[1].layout # r.params.views[2].layout

\* C19: created_at and modified_at of every row and of every view of the copy
\* are one and the same value, the one timestamp() returned for the call,
\* whatever the timestamps of the source.
C19_OneSharedTimestamp ==
  \A r \in output :
    /\ \A i \in Positions(r.params.rows) :
         r.params.rows[i].created_at = r.now /\ r.params.rows[i].modified_at = r.now
    /\ \A j \in Positions(r.params.views) :
         r.params.views[j].created_at = r.now /\ r.params.views[j].modified_at = r.now

\* A source whose rows and views have other timestamps than the time of the
\* call was copied: the rows and views of the copy have the time of the call.
C19_Witness ==
  /\ Len(input.data.rows) = 2 /\ Len(input.data.views) = 2
  /\ input.data.rows[1].created_at # input.data.rows[2].created_at
  /\ \E r \in output :
       /\ r.now = MaxTimestamp
       /\ input.data.rows[1].created_at # r.now
       /\ input.data.views[1].modified_at # r.now
       /\ r.params.rows[1].created_at = r.now
       /\ r.params.views[1].modified_at = r.now

\* ------------------------------------------------------------------------
\* collab: history plugin (plugin/history.rs)
\* ------------------------------------------------------------------------

\* How many handles (the plugin and its clones, each used by one thread)
\* share the store, and how many updates are recorded at most.
MaxHandles == 2
MaxStore == 2

Handles == 1..MaxHandles

\* The encoded updates a handle may be given: encode_v1 of an update, or
\* bytes that are no encoding of an update.
HistUpdates == {"a", "b"}
EncodeV1(u) == <<"v1", u>>
Malformed == <<"junk">>
HistBytes == {EncodeV1(u) : u \in HistUpdates} \cup {Malformed}

\* history.rs:19  Update::decode_v1
DecodeV1(bytes) ==
  IF Len(bytes) = 2 /\ bytes[1] = "v1" THEN Ok(bytes[2]) ELSE Err("decode_v1")

\* The new update put in front of the stored ones.
PushFront(updates, update) == <<update>> \o updates

\* history.rs:27  Vec::push
Push(updates, update) == Append(updates, update)

\* A handle that is not inside a call.
Idle == [pc |-> "idle", update |-> {}, updates |-> <<>>]

\* history.rs:12-14  CollabHistoryPlugin::new and its clones: an empty store
\* behind one Arc, nobody holds the lock.
HistoryInit ==
  /\ SyncInit /\ ExtUnused
  /\ store = <<>>
  /\ lock = {}
  /\ hist = [t \in Handles |-> Idle]
  /\ output = Pending
  /\ input = Unused /\ row_map = Unused /\ block = Unused /\ lastSet = Unused

\* history.rs:26  did_receive_new_update is called on handle t
BeginRecord(t) ==
  /\ hist[t].pc = "idle"
  /\ Len(store) + Cardinality({s \in Handles : hist[s].pc = "record"}) < MaxStore
  /\ \E bytes \in HistBytes :
       hist' = [hist EXCEPT ![t] = [pc |-> "record", update |-> {bytes}, updates |-> <<>>]]
  /\ UNCHANGED <<syncVars, extVars, input, output, row_map, block, lastSet, store, lock>>

\* history.rs:27  self.0.write().push(update): the write lock is taken when
\* no reader holds the lock, the update is pushed and the lock is released.
RecordPush(t) ==
  /\ hist[t].pc = "record"
  /\ lock = {}
  /\ \E bytes \in hist[t].update : store' = Push(store, bytes)
  /\ hist' = [hist EXCEPT ![t] = Idle]
  /\ UNCHANGED <<syncVars, extVars, input, output, row_map, block, lastSet, lock>>

\* history.rs:16-18  get_updates is called on handle t: the read lock is
\* taken (shared with other readers), the result vector is empty.
BeginGetUpdates(t) ==
  /\ hist[t].pc = "idle"
  /\ lock' = lock \cup {t}
  /\ hist' = [hist EXCEPT ![t] = [pc |-> "replay", update |-> {}, updates |-> <<>>]]
  /\ UNCHANGED <<syncVars, extVars, input, output, row_map, block, lastSet, store>>

\* history.rs:18-20  the next stored delta decodes and is pushed to the result
DecodeOk(t) ==
  /\ hist[t].pc = "replay"
  /\ Len(hist[t].updates) < Len(store)
  /\ LET decoded == DecodeV1(store[Len(hist[t].updates) + 1])
     IN  /\ decoded.tag = "Ok"
         /\ hist' = [hist EXCEPT ![t].updates = Append(@, decoded.value)]
  /\ UNCHANGED <<syncVars, extVars, input, output, row_map, block, lastSet, store, lock>>

\* A replay that, at a delta that does not decode, returns the updates
\* decoded so far.
DecodeErrReturnsPartial(t) ==
  /\ hist[t].pc = "replay"
  /\ Len(hist[t].updates) < Len(store)
  /\ DecodeV1(store[Len(hist[t].updates) + 1]).tag = "Err"
  /\ output' = {Ok(hist[t].updates)}
  /\ hist' = [hist EXCEPT ![t] = Idle]
  /\ lock' = lock \ {t}
  /\ UNCHANGED <<syncVars, extVars, input, row_map, block, lastSet, store>>

\* history.rs:19  the next stored delta does not decode: `?` returns the
\* error, the read lock is released.
DecodeErr(t) ==
  /\ hist[t].pc = "replay"
  /\ Len(hist[t].updates) < Len(store)
  /\ LET decoded == DecodeV1(store[Len(hist[t].updates) + 1])
     IN  /\ decoded.tag = "Err"
         /\ output' = {decoded}
  /\ hist' = [hist EXCEPT ![t] = Idle]
  /\ lock' = lock \ {t}
  /\ UNCHANGED <<syncVars, extVars, input, row_map, block, lastSet, store>>

\* history.rs:21  Ok(updates): every stored delta was decoded, the read lock
\* is released.
ReturnUpdates(t) ==
  /\ hist[t].pc = "replay"
  /\ Len(hist[t].updates) = Len(store)
  /\ output' = {Ok(hist[t].updates)}
  /\ hist' = [hist EXCEPT ![t] = Idle]
  /\ lock' = lock \ {t}
  /\ UNCHANGED <<syncVars, extVars, input, row_map, block, lastSet, store>>

HistoryNext ==
  \E t \in Handles :
    \/ BeginRecord(t)
    \/ RecordPush(t)
    \/ BeginGetUpdates(t)
    \/ DecodeOk(t)
    \/ DecodeErr(t)
    \/ ReturnUpdates(t)

HistorySpec == HistoryInit /\ [][HistoryNext]_vars

\* The decoded form of stored deltas that all decode.
DecodedAll(updates) == [i \in 1..Len(updates) |-> DecodeV1(updates[i]).value]

\* C20: the store changes only by a record, which puts its update once at
\* the end and leaves the earlier entries as they were, whichever handle
\* records and whatever calls are under way on the other handles; a
\* get_updates that returns updates returns one decoded update per stored
\* delta in the order of the store; get_updates leaves the store as it is,
\* from its start to its return.
C20_AppendOnlyAndReplayInOrder ==
  [][/\ store' # store =>
          \E t \in Handles :
            /\ hist[t].pc = "record" /\ hist'[t].pc = "idle"
            /\ \A s \in Handles \ {t} : hist'[s] = hist[s]
            /\ \E bytes \in hist[t].update : store' = Append(store, bytes)
     /\ \A t \in Handles :
          (hist[t].pc = "replay" \/ hist'[t].pc = "replay") => store' = store
     /\ \A t \in Handles :
          (hist[t].pc = "replay" /\ hist'[t].pc = "idle" /\ output' # {}
             /\ \A r \in output' : r.tag = "Ok")
            => output' = {Ok(DecodedAll(store))}]_vars

\* Two updates were recorded while both handles had a record under way, and
\* a replay has returned both in the order of the store.
C20_Witness ==
  /\ store = <<EncodeV1("b"), EncodeV1("a")>>
  /\ output = {Ok(<<"b", "a">>)}
  /\ \A t \in Handles : hist[t].pc = "idle"

\* Some stored delta does not decode.
HasBadDelta == \E i \in 1..Len(store) : DecodeV1(store[i]).tag = "Err"

\* C21: a get_updates that returns while some stored delta does not decode,
\* at whatever position, returns an error and no updates; it leaves the store
\* as it was, so every later replay of that store returns an error too.
C21_ReplayFailFast ==
  [][\A t \in Handles :
       (hist[t].pc = "replay" /\ hist'[t].pc = "idle")
         => /\ store' = store
            /\ HasBadDelta => /\ output' # {}
                              /\ \A r \in output' : r.tag = "Err"
            /\ ~HasBadDelta => output' = {Ok(DecodedAll(store))}]_vars

\* The second stored delta does not decode, the first does: the replay has
\* returned the error, and the store still holds both.
C21_Witness ==
  /\ store = <<EncodeV1("a"), Malformed>>
  /\ output = {Err("decode_v1")}
  /\ \A t \in Handles : hist[t].pc = "idle"

\* ------------------------------------------------------------------------
\* collab-database: the id generator behind RowId::default (rows/row.rs)
\* ------------------------------------------------------------------------

\* How many threads create row ids, and how many ids they ask for in all.
MaxCallers == 2
MaxIds == 4

Callers == 1..MaxCallers

\* A caller outside RowId::default, with the ids it has obtained so far.
Outside(ids) == [pc |-> "outside", read |-> 0, ids |-> ids]

\* The calls of RowId::default begun and not yet returned.
CallsBegun ==
  Cardinality({c \in Callers : callers[c].pc # "outside"})
    + Cardinality(UNION {callers[c].ids : c \in Callers})

\* A process has started: the generator has issued nothing, nobody holds its
\* lock.
IdGenInit ==
  /\ SyncInit /\ DbUnused
  /\ ID_GEN = 0
  /\ id_lock = {}
  /\ callers = [c \in Callers |-> Outside({})]
  /\ user_database = Unused /\ scripts = Unused /\ children = Unused
  /\ reference = Unused /\ collab = Unused /\ mirror = Unused

\* row.rs:83  caller c enters RowId::default
CallDefault(c) ==
  /\ callers[c].pc = "outside"
  /\ CallsBegun < MaxIds
  /\ callers' = [callers EXCEPT ![c].pc = "lock"]
  /\ UNCHANGED <<syncVars, dbVars, ID_GEN, id_lock, user_database, scripts, children,
                 reference, collab, mirror>>

\* The lock handed out while another caller holds it.
LockWithoutWaiting(c) ==
  /\ callers[c].pc = "lock"
  /\ id_lock' = id_lock \cup {c}
  /\ callers' = [callers EXCEPT ![c].pc = "locked"]
  /\ UNCHANGED <<syncVars, dbVars, ID_GEN, user_database, scripts, children,
                 reference, collab, mirror>>

\* row.rs:84  ID_GEN.lock(): taken when no caller holds it
Lock(c) ==
  /\ callers[c].pc = "lock"
  /\ id_lock = {}
  /\ id_lock' = {c}
  /\ callers' = [callers EXCEPT ![c].pc = "locked"]
  /\ UNCHANGED <<syncVars, dbVars, ID_GEN, user_database, scripts, children,
                 reference, collab, mirror>>

\* row.rs:84  next_id(), first half: the counter is read
NextIdRead(c) ==
  /\ callers[c].pc = "locked"
  /\ callers' = [callers EXCEPT ![c].pc = "read", ![c].read = ID_GEN]
  /\ UNCHANGED <<syncVars, dbVars, ID_GEN, id_lock, user_database, scripts, children,
                 reference, collab, mirror>>

\* row.rs:84  next_id(), second half: the next id is stored and returned
NextIdWrite(c) ==
  /\ callers[c].pc = "read"
  /\ LET next == NextId(callers[c].read)
     IN  /\ ID_GEN' = next.id_gen
         /\ callers' = [callers EXCEPT ![c].pc = "unlock", ![c].ids = @ \cup {next.id}]
  /\ UNCHANGED <<syncVars, dbVars, id_lock, user_database, scripts, children,
                 reference, collab, mirror>>

\* row.rs:84-85  the guard of the lock is dropped, RowId::default returns
Unlock(c) ==
  /\ callers[c].pc = "unlock"
  /\ id_lock' = id_lock \ {c}
  /\ callers' = [callers EXCEPT ![c].pc = "outside"]
  /\ UNCHANGED <<syncVars, dbVars, ID_GEN, user_database, scripts, children,
                 reference, collab, mirror>>

IdGenNext ==
  \E c \in Callers :
    \/ CallDefault(c)
    \/ Lock(c)
    \/ NextIdRead(c)
    \/ NextIdWrite(c)
    \/ Unlock(c)

IdGenSpec == IdGenInit /\ [][IdGenNext]_vars

\* The ids obtained so far by all callers.
IdsObtained == UNION {callers[c].ids : c \in Callers}

\* C22: every id a call of next_id returns is greater than every id returned
\* before, to whichever caller; no two callers hold the same id, and a caller
\* has as many ids as calls it made.
C22_MonotonicExclusiveIds ==
  [][\A c \in Callers :
       (callers[c].pc = "read" /\ callers'[c].pc = "unlock")
         => /\ \E id \in callers'[c].ids \ callers[c].ids :
                 /\ callers'[c].ids = callers[c].ids \cup {id}
                 /\ \A before \in IdsObtained : id > before
            /\ \A d \in Callers \ {c} : callers'[c].ids \cap callers'[d].ids = {}]_vars

\* All ids were issued, some to each caller: together the callers hold MaxIds
\* different ids.
C22_Witness ==
  /\ \A c \in Callers : callers[c].ids # {} /\ callers[c].pc = "outside"
  /\ Cardinality(IdsObtained) = MaxIds

\* ---------------------------------------------------------------------------
\* FieldType and its i64 encoding (collab-database/src/entity.rs)
\* ---------------------------------------------------------------------------

\* Conversions applied in a row to one input.
MaxConversions == 3
\* The low halves tried run from -MaxIndex to MaxIndex, and the two ends of i32.
MaxIndex == 16
\* entity.rs:274  the largest discriminant of the enum.
MaxDiscriminant == 14

\* entity.rs:259-275  the enum, in the order of its discriminants 0..14.
FieldTypeEnum ==
  <<"RichText", "Number", "DateTime", "SingleSelect", "MultiSelect", "Checkbox",
    "URL", "Checklist", "LastEditedTime", "CreatedTime", "Relation", "Summary",
    "Translate", "Time", "Media">>

FieldTypes == {FieldTypeEnum[i] : i \in 1..Len(FieldTypeEnum)}

\* The i64 values tried: both halves vary, so that values beyond 32 bits whose
\* low half is a discriminant are among them.
HighHalves == {-1, 0, 1}
LowHalves == (-MaxIndex..MaxIndex) \cup {MinI32, MaxI32}
I64Values == [hi : HighHalves, lo : LowHalves]

AnI64(v) == [i64 |-> v]
AFieldType(k) == [field_type |-> k]
IsI64(x) == DOMAIN x = {"i64"}

\* The fallback arm taken for every low half: the high half is dropped before
\* the match.
FieldTypeFromLowHalf(index) ==
  IF index.lo \in 0..(Len(FieldTypeEnum) - 1)
  THEN FieldTypeEnum[index.lo + 1]
  ELSE "RichText"

\* entity.rs:300-324  impl From<i64> for FieldType
FieldTypeFrom(index) ==
  CASE index = I64Of(0) -> "RichText"
    [] index = I64Of(1) -> "Number"
    [] index = I64Of(2) -> "DateTime"
    [] index = I64Of(3) -> "SingleSelect"
    [] index = I64Of(4) -> "MultiSelect"
    [] index = I64Of(5) -> "Checkbox"
    [] index = I64Of(6) -> "URL"
    [] index = I64Of(7) -> "Checklist"
    [] index = I64Of(8) -> "LastEditedTime"
    [] index = I64Of(9) -> "CreatedTime"
    [] index = I64Of(10) -> "Relation"
    [] index = I64Of(11) -> "Summary"
    [] index = I64Of(12) -> "Translate"
    [] index = I64Of(13) -> "Time"
    [] index = I64Of(14) -> "Media"
    [] OTHER -> "RichText"

\* entity.rs:283-287  impl From<FieldType> for i64: the discriminant.
I64From(field_type) ==
  I64Of((CHOOSE i \in 1..Len(FieldTypeEnum) : FieldTypeEnum[i] = field_type) - 1)

\* The value the next conversion applies to.
LastValue == IF output = <<>> THEN input ELSE output[Len(output)]

FieldTypeInit ==
  /\ SyncInit /\ ExtUnused
  /\ input \in {AnI64(v) : v \in I64Values} \cup {AFieldType(k) : k \in FieldTypes}
  /\ output = <<>>
  /\ row_map = Unused /\ block = Unused /\ lastSet = Unused
  /\ store = Unused /\ lock = Unused /\ hist = Unused

\* entity.rs:301  FieldType::from(index)
DecodeFieldType ==
  /\ Len(output) < MaxConversions
  /\ IsI64(LastValue)
  /\ output' = Append(output, AFieldType(FieldTypeFrom(LastValue.i64)))
  /\ UNCHANGED <<syncVars, extVars, input, row_map, block, lastSet, store, lock, hist>>

\* entity.rs:284  i64::from(field_type)
EncodeFieldType ==
  /\ Len(output) < MaxConversions
  /\ ~IsI64(LastValue)
  /\ output' = Append(output, AnI64(I64From(LastValue.field_type)))
  /\ UNCHANGED <<syncVars, extVars, input, row_map, block, lastSet, store, lock, hist>>

FieldTypeNext == DecodeFieldType \/ EncodeFieldType

FieldTypeSpec == FieldTypeInit /\ [][FieldTypeNext]_vars

\* The values converted so far, the input first.
Converted == <<input>> \o output

\* C23: decoding an i64 always yields one of the 15 kinds; a discriminant
\* 0..14 yields the kind declared with it, so the encoding of a kind decodes
\* to that kind; every other i64 yields RichText.
C23_DecodingTotalWithFallback ==
  \A i \in 1..Len(output) :
    LET from == Converted[i]
        to == Converted[i + 1]
    IN  /\ IsI64(from) =>
             /\ ~IsI64(to) /\ to.field_type \in FieldTypes
             /\ \A d \in 0..MaxDiscriminant :
                  from.i64 = I64Of(d) => to.field_type = FieldTypeEnum[d + 1]
             /\ (\A d \in 0..MaxDiscriminant : from.i64 # I64Of(d))
                  => to.field_type = "RichText"
        /\ (~IsI64(from) /\ i < Len(output)) => Converted[i + 2] = from

\* The value 2^32 + 3, which is no discriminant though its low half is one,
\* decoded to RichText, whose encoding 0 decoded to RichText again.
C23_Witness ==
  /\ input = AnI64([hi |-> 1, lo |-> 3])
  /\ output = <<AFieldType("RichText"), AnI64(I64Of(0)), AFieldType("RichText")>>

\* ---------------------------------------------------------------------------
\* Scripts run as concurrent tasks on one UserDatabase
\* (collab-database/tests/user_test/async_test/script.rs)
\* ---------------------------------------------------------------------------

\* Scripts handed to one call of run_scripts.
MaxTasks == 3

Tasks == 1..MaxTasks

\* script.rs:145-183  the database of the tests; its first row stands for
\* the rows created with it.
TestDatabaseId == "d1"
CreatedRowId == 1
TextCells(data) == [f1 |-> [data |-> data]]

\* script.rs:18-31  the mutating scripts.
ScriptCreateDatabase(database_id) ==
  [script |-> "CreateDatabase", database_id |-> database_id,
   row_id |-> CreatedRowId, cells |-> TextCells("x")]
ScriptCreateRow(database_id, row_id) ==
  [script |-> "CreateRow", database_id |-> database_id,
   row_id |-> row_id, cells |-> TextCells("x")]
ScriptEditRow(database_id, row_id, cells) ==
  [script |-> "EditRow", database_id |-> database_id,
   row_id |-> row_id, cells |-> cells]

DatabaseScripts ==
  {ScriptCreateDatabase(TestDatabaseId)}
    \cup {ScriptCreateRow(TestDatabaseId, r) : r \in {2, 3}}
    \cup {ScriptEditRow(TestDatabaseId, r, TextCells(d)) : r \in {1, 2}, d \in CellData}

\* A row of a database is the map written by the builder of the row.
NewRowMap(row_id, cells) == SetCells(RowBuilderNew(row_id, 1, EmptyMap), cells)

\* UserDatabase::create_database: the database is created with its rows.
CreateDatabaseIn(databases, params) ==
  Insert(databases, params.database_id,
         Insert(EmptyMap, params.row_id, NewRowMap(params.row_id, params.cells)))

\* Database::create_row: the row is added to the rows of the database.
CreateRowIn(databases, params) ==
  Insert(databases, params.database_id,
         Insert(databases[params.database_id], params.row_id,
                NewRowMap(params.row_id, params.cells)))

\* Database::update_row with the closure of script.rs:106-108: set_cells on
\* the row, and nothing when the row is not found.
UpdateRowIn(databases, params) ==
  LET rows == databases[params.database_id]
  IN  IF params.row_id \notin DOMAIN rows THEN databases
      ELSE Insert(databases, params.database_id,
                  Insert(rows, params.row_id, SetCells(rows[params.row_id], params.cells)))

\* The databases a call of run_scripts may find: none, or the test database
\* created by an earlier call.
DatabasesBefore ==
  {EmptyMap, CreateDatabaseIn(EmptyMap, ScriptCreateDatabase(TestDatabaseId))}

\* The batches: a database is created at most once and only when it does not
\* exist, every script works on a database that was there before the call or
\* is created by a script of the call, and the rows created have ids of
\* their own.
Batches(before) ==
  {b \in [Tasks -> DatabaseScripts] :
     /\ \A t \in Tasks :
          \/ b[t].database_id \in DOMAIN before
          \/ \E u \in Tasks : /\ b[u].script = "CreateDatabase"
                               /\ b[u].database_id = b[t].database_id
     /\ \A t \in Tasks : b[t].script = "CreateDatabase" =>
          /\ b[t].database_id \notin DOMAIN before
          /\ \A u \in Tasks \ {t} : b[u].script # "CreateDatabase"
     /\ \A t, u \in Tasks :
          (t # u /\ b[t].script = "CreateRow" /\ b[u].script = "CreateRow")
            => b[t].row_id # b[u].row_id}

\* script.rs:69-78  run_scripts has spawned one task per script over clones
\* of the one UserDatabase; no task has run yet.
ScriptsInit ==
  /\ SyncInit /\ DbUnused
  /\ \E before \in DatabasesBefore :
       /\ user_database = [mutex |-> {}, databases |-> before,
                           before |-> before, order |-> <<>>]
       /\ \E b \in Batches(before) :
            scripts = [t \in Tasks |-> [script |-> b[t], pc |-> "spawned"]]
  /\ ID_GEN = Unused /\ id_lock = Unused /\ callers = Unused
  /\ children = Unused /\ reference = Unused /\ collab = Unused /\ mirror = Unused

\* The lock taken while another task holds it.
LockUserDatabaseWithoutWaiting(t) ==
  /\ scripts[t].pc = "spawned"
  /\ user_database' = [user_database EXCEPT !.mutex = {t}, !.order = Append(@, t)]
  /\ scripts' = [scripts EXCEPT ![t].pc = "locked"]
  /\ UNCHANGED <<syncVars, dbVars, ID_GEN, id_lock, callers, children, reference,
                 collab, mirror>>

\* script.rs:88,94,104  user_database.lock()
LockUserDatabase(t) ==
  /\ scripts[t].pc = "spawned"
  /\ user_database.mutex = {}
  /\ user_database' = [user_database EXCEPT !.mutex = {t}, !.order = Append(@, t)]
  /\ scripts' = [scripts EXCEPT ![t].pc = "locked"]
  /\ UNCHANGED <<syncVars, dbVars, ID_GEN, id_lock, callers, children, reference,
                 collab, mirror>>

\* script.rs:88  create_database(params).unwrap()
RunCreateDatabase(t) ==
  /\ scripts[t].pc = "locked"
  /\ scripts[t].script.script = "CreateDatabase"
  /\ user_database' =
       [user_database EXCEPT !.databases = CreateDatabaseIn(@, scripts[t].script)]
  /\ scripts' = [scripts EXCEPT ![t].pc = "guard"]
  /\ UNCHANGED <<syncVars, dbVars, ID_GEN, id_lock, callers, children, reference,
                 collab, mirror>>

\* script.rs:95-96,105-106  get_database(&database_id).unwrap() on Some
GetDatabase(t) ==
  /\ scripts[t].pc = "locked"
  /\ scripts[t].script.script \in {"CreateRow", "EditRow"}
  /\ scripts[t].script.database_id \in DOMAIN user_database.databases
  /\ scripts' = [scripts EXCEPT ![t].pc = "database"]
  /\ UNCHANGED <<syncVars, dbVars, ID_GEN, id_lock, callers, user_database, children,
                 reference, collab, mirror>>

\* script.rs:95-96,105-106  get_database(&database_id).unwrap() on None: the
\* task panics, and the unwinding drops the guard.
UnwrapNone(t) ==
  /\ scripts[t].pc = "locked"
  /\ scripts[t].script.script \in {"CreateRow", "EditRow"}
  /\ scripts[t].script.database_id \notin DOMAIN user_database.databases
  /\ user_database' = [user_database EXCEPT !.mutex = {}]
  /\ scripts' = [scripts EXCEPT ![t].pc = "panicked"]
  /\ UNCHANGED <<syncVars, dbVars, ID_GEN, id_lock, callers, children, reference,
                 collab, mirror>>

\* script.rs:97  .create_row(params)
RunCreateRow(t) ==
  /\ scripts[t].pc = "database"
  /\ scripts[t].script.script = "CreateRow"
  /\ user_database' =
       [user_database EXCEPT !.databases = CreateRowIn(@, scripts[t].script)]
  /\ scripts' = [scripts EXCEPT ![t].pc = "guard"]
  /\ UNCHANGED <<syncVars, dbVars, ID_GEN, id_lock, callers, children, reference,
                 collab, mirror>>

\* script.rs:107-109  .update_row(row_id, |row| { row.set_cells(cells); })
RunEditRow(t) ==
  /\ scripts[t].pc = "database"
  /\ scripts[t].script.script = "EditRow"
  /\ user_database' =
       [user_database EXCEPT !.databases = UpdateRowIn(@, scripts[t].script)]
  /\ scripts' = [scripts EXCEPT ![t].pc = "guard"]
  /\ UNCHANGED <<syncVars, dbVars, ID_GEN, id_lock, callers, children, reference,
                 collab, mirror>>

\* script.rs:88,97,109  the guard is dropped at the end of the statement
DropGuard(t) ==
  /\ scripts[t].pc = "guard"
  /\ user_database' = [user_database EXCEPT !.mutex = {}]
  /\ scripts' = [scripts EXCEPT ![t].pc = "done"]
  /\ UNCHANGED <<syncVars, dbVars, ID_GEN, id_lock, callers, children, reference,
                 collab, mirror>>

ScriptsNext ==
  \E t \in Tasks :
    \/ LockUserDatabase(t)
    \/ RunCreateDatabase(t)
    \/ GetDatabase(t)
    \/ UnwrapNone(t)
    \/ RunCreateRow(t)
    \/ RunEditRow(t)
    \/ DropGuard(t)

ScriptsSpec == ScriptsInit /\ [][ScriptsNext]_vars

\* script.rs:79-81  every task has returned or panicked.
AllJoined == \A t \in Tasks : scripts[t].pc \in {"done", "panicked"}

\* The tasks between lock() and the drop of the guard.
HoldingGuard == {t \in Tasks : scripts[t].pc \in {"locked", "database", "guard"}}

\* One script run whole on the databases; a script whose database is not
\* there changes nothing.
RunWhole(databases, params) ==
  IF params.script = "CreateDatabase" THEN CreateDatabaseIn(databases, params)
  ELSE IF params.database_id \notin DOMAIN databases THEN databases
  ELSE IF params.script = "CreateRow" THEN CreateRowIn(databases, params)
  ELSE UpdateRowIn(databases, params)

\* The scripts of the tasks of `order` run whole, one after the other.
RECURSIVE RunInOrder(_, _)
RunInOrder(databases, order) ==
  IF order = <<>> THEN databases
  ELSE RunInOrder(RunWhole(databases, scripts[Head(order)].script), Tail(order))

\* The database of the script is there; the row of a CreateRow script is in
\* it, and a row that was there before the call has the cells of one of the
\* EditRow scripts on it.
EffectPresent(params) ==
  /\ params.database_id \in DOMAIN user_database.databases
  /\ LET rows == user_database.databases[params.database_id]
     IN  /\ params.script = "CreateRow" => params.row_id \in DOMAIN rows
         /\ (/\ params.script = "EditRow"
             /\ params.database_id \in DOMAIN user_database.before
             /\ params.row_id \in DOMAIN user_database.before[params.database_id]) =>
              /\ params.row_id \in DOMAIN rows
              /\ \E u \in Tasks :
                   /\ scripts[u].script.script = "EditRow"
                   /\ scripts[u].script.row_id = params.row_id
                   /\ rows[params.row_id]["cells"] = scripts[u].script.cells

MaxChildren == 3

ChildrenIds == {"c1", "c2"}
ChildIds == {"a", "b"}

\* The array held under children_id, read as the sequence of its elements.
StoredList(root, children_id) ==
  IF children_id \in DOMAIN root THEN root[children_id] ELSE <<>>

\* yrs Array::insert(txn, index, value), index counted from 0.
ArrayInsert(list, index, value) ==
  [i \in 1..(Len(list) + 1) |->
     IF i <= index THEN list[i] ELSE IF i = index + 1 THEN value ELSE list[i - 1]]

\* yrs Array::remove(txn, index), index counted from 0.
ArrayRemove(list, index) ==
  [i \in 1..(Len(list) - 1) |-> IF i <= index THEN list[i] ELSE list[i + 1]]

\* Iterator::position: the index, from 0, of the first element equal to
\* child_id.
Position(list, child_id) ==
  LET found == {i \in 1..Len(list) : list[i] = child_id}
  IN  IF found = {} THEN {}
      ELSE {(CHOOSE i \in found : \A j \in found : i <= j) - 1}

\* children.rs:49-56  create_children_with_txn
CreateChildren(root, children_id) == Insert(root, children_id, <<>>)

\* children.rs:38-47  get_children_with_txn: the map after the call; the
\* array is created when it is not there.
GetChildren(root, children_id) ==
  IF Get(root, children_id) # {} THEN root ELSE CreateChildren(root, children_id)

\* children.rs:62-79  get_child_index_with_txn
GetChildIndexOf(root, children_id, child_id) ==
  LET children_ref == Get(root, children_id)
  IN  IF children_ref = {} THEN {}
      ELSE IF Len(root[children_id]) = 0 THEN {}
      ELSE Position(root[children_id], child_id)

\* An insert that appends.
InsertChildAtEnd(root, children_id, child_id, index) ==
  LET located == GetChildren(root, children_id)
  IN  Insert(located, children_id, Append(located[children_id], child_id))

\* children.rs:81-90  insert_child_with_txn
InsertChildIn(root, children_id, child_id, index) ==
  LET located == GetChildren(root, children_id)
  IN  Insert(located, children_id, ArrayInsert(located[children_id], index, child_id))

\* children.rs:92-98  delete_child_with_txn
DeleteChildIn(root, children_id, child_id) ==
  LET located == GetChildren(root, children_id)
      index == GetChildIndexOf(located, children_id, child_id)
  IN  IF index = {} THEN located
      ELSE Insert(located, children_id,
                  ArrayRemove(located[children_id], CHOOSE i \in index : TRUE))

\* The reference: the sequence with the id put at the index, and the
\* sequence without the first occurrence of the id.
RefInsert(s, index, x) == SubSeq(s, 1, index) \o <<x>> \o SubSeq(s, index + 1, Len(s))
RECURSIVE RefDeleteFirst(_, _)
RefDeleteFirst(s, x) ==
  IF s = <<>> THEN <<>>
  ELSE IF Head(s) = x THEN Tail(s)
  ELSE <<Head(s)>> \o RefDeleteFirst(Tail(s), x)

NoCall == [op |-> "none", children_id |-> "", child_id |-> "", index |-> {}]

\* children.rs:29-36  ChildrenMap::new over an empty root.
ChildrenInit ==
  /\ SyncInit
  /\ children = EmptyMap
  /\ reference = [c \in ChildrenIds |-> <<>>]
  /\ output = NoCall
  /\ input = Unused /\ row_map = Unused /\ block = Unused /\ lastSet = Unused
  /\ store = Unused /\ lock = Unused /\ hist = Unused
  /\ ID_GEN = Unused /\ id_lock = Unused /\ callers = Unused
  /\ user_database = Unused /\ scripts = Unused /\ collab = Unused /\ mirror = Unused

\* children.rs:81-90  insert_child_with_txn(txn, children_id, child_id, index)
InsertChild(children_id, child_id, index) ==
  /\ index <= Len(StoredList(children, children_id))
  /\ Len(StoredList(children, children_id)) < MaxChildren
  /\ children' = InsertChildIn(children, children_id, child_id, index)
  /\ reference' = [reference EXCEPT ![children_id] = RefInsert(@, index, child_id)]
  /\ output' = [op |-> "insert", children_id |-> children_id, child_id |-> child_id,
                index |-> {index}]
  /\ UNCHANGED <<syncVars, input, row_map, block, lastSet, store, lock, hist, ID_GEN,
                 id_lock, callers, user_database, scripts, collab, mirror>>

\* children.rs:92-98  delete_child_with_txn(txn, children_id, child_id)
DeleteChild(children_id, child_id) ==
  /\ children' = DeleteChildIn(children, children_id, child_id)
  /\ reference' = [reference EXCEPT ![children_id] = RefDeleteFirst(@, child_id)]
  /\ output' = [op |-> "delete", children_id |-> children_id, child_id |-> child_id,
                index |-> {}]
  /\ UNCHANGED <<syncVars, input, row_map, block, lastSet, store, lock, hist, ID_GEN,
                 id_lock, callers, user_database, scripts, collab, mirror>>

\* children.rs:62-79  get_child_index_with_txn(txn, children_id, child_id)
GetChildIndex(children_id, child_id) ==
  /\ output' = [op |-> "get_child_index", children_id |-> children_id,
                child_id |-> child_id,
                index |-> GetChildIndexOf(children, children_id, child_id)]
  /\ UNCHANGED <<syncVars, input, row_map, block, lastSet, store, lock, hist, extVars>>

ChildrenNext ==
  \E children_id \in ChildrenIds, child_id \in ChildIds :
    \/ \E index \in 0..MaxChildren : InsertChild(children_id, child_id, index)
    \/ DeleteChild(children_id, child_id)
    \/ GetChildIndex(children_id, child_id)

ChildrenSpec == ChildrenInit /\ [][ChildrenNext]_vars

\* C25: the list stored under every children_id is the reference sequence;
\* an insert leaves a list under its children_id; and the index returned by
\* get_child_index_with_txn is that of the first occurrence of the id in the
\* reference, None when the id does not occur in it (the list absent or
\* empty included).
C25_ChildrenListIsReferenceSequence ==
  /\ \A c \in ChildrenIds : StoredList(children, c) = reference[c]
  /\ output.op = "insert" => output.children_id \in DOMAIN children
  /\ output.op = "get_child_index" =>
       LET s == reference[output.children_id]
           x == output.child_id
       IN  /\ (\A i \in 1..Len(s) : s[i] # x) => output.index = {}
           /\ (output.children_id \notin DOMAIN children \/ s = <<>>) => output.index = {}
           /\ \A i \in 1..Len(s) :
                (s[i] = x /\ \A j \in 1..(i - 1) : s[j] # x) => output.index = {i - 1}

\* The last call deleted a from the list of c1, which held a twice: the
\* list is <<b, a>>, the second a still in it, and c2 has no list.
C25_Witness ==
  /\ output = [op |-> "delete", children_id |-> "c1", child_id |-> "a", index |-> {}]
  /\ StoredList(children, "c1") = <<"b", "a">>
  /\ "c2" \notin DOMAIN children

\* The ids held by the list stored under children_id.
ChildrenOf(root, children_id) ==
  {StoredList(root, children_id)[i] : i \in 1..Len(StoredList(root, children_id))}

\* C27: a delete_child_with_txn on a children_id that has no list, or whose
\* list does not hold child_id, leaves the children map as it was: the same
\* keys and the same list under each.
C27_DeleteNothingChangesNothing ==
  [][\A children_id \in ChildrenIds, child_id \in ChildIds :
       (/\ DeleteChild(children_id, child_id)
        /\ \/ children_id \notin DOMAIN children
           \/ child_id \notin ChildrenOf(children, children_id))
         => children' = children]_vars

\* What does hold: such a delete changes no list that is there, and the only
\* key it may add is children_id, with an empty list.
DeleteNothingKeepsLists ==
  [][\A children_id \in ChildrenIds, child_id \in ChildIds :
       (/\ DeleteChild(children_id, child_id)
        /\ child_id \notin ChildrenOf(children, children_id))
         => /\ \A c \in DOMAIN children : c \in DOMAIN children' /\ children'[c] = children[c]
            /\ DOMAIN children' = DOMAIN children \cup {children_id}
            /\ children'[children_id] = StoredList(children, children_id)]_vars

\* ---------------------------------------------------------------------------
\* The task of SyncPlugin::new that mirrors the sync state of the queue on
\* the local collab (collab-plugins/src/sync_plugin/plugin.rs:76-86)
\* ---------------------------------------------------------------------------

\* plugin.rs:76  the stream of the task is the first receiver of the channel.
MirrorStream == 1

\* The local collab behind its mutex, and the task before its first poll.
NewCollab == [alive |-> TRUE, locked |-> FALSE, sync_state |-> "Init"]
Awaiting == [pc |-> "await", new_state |-> "none"]

\* plugin.rs:66-75  SyncPlugin::new up to the creation of the queue; the
\* collab is alive and no task holds its lock.
MirrorInit ==
  /\ SyncInit /\ DbUnused
  /\ collab = NewCollab
  /\ mirror = Awaiting
  /\ ID_GEN = Unused /\ id_lock = Unused /\ callers = Unused
  /\ user_database = Unused /\ scripts = Unused
  /\ children = Unused /\ reference = Unused

\* plugin.rs:76-77  the stream is made and the task spawned before new returns.
Spawned == subs[MirrorStream].status # "none"

\* plugin.rs:79  sync_state_stream.next().await yields new_state
MirrorStreamNext ==
  /\ Spawned
  /\ mirror.pc = "await"
  /\ \/ subs[MirrorStream].status = "new" /\ FirstPollReady(subs[MirrorStream])
     \/ subs[MirrorStream].status = "polled" /\ subs[MirrorStream].changed
  /\ subs' = [subs EXCEPT ![MirrorStream] =
                [status |-> "polled", atSub |-> "none",
                 last |-> sync_queue.state, changed |-> FALSE]]
  /\ mirror' = [pc |-> "upgrade", new_state |-> sync_queue.state]
  /\ UNCHANGED <<doc, nextLocal, pluginAlive, strong, task, inited, sync_queue,
                 sink, stream, peerSent, handlerAlive, handled, awareness, resets, enqLog,
                 cleared, firedBeforeReset>>
  /\ UNCHANGED <<dbVars, ID_GEN, id_lock, callers, user_database, scripts, children,
                 reference, collab>>

\* plugin.rs:80  weak_local_collab.upgrade() is Some
MirrorUpgradeSome ==
  /\ mirror.pc = "upgrade"
  /\ collab.alive
  /\ mirror' = [mirror EXCEPT !.pc = "try_lock"]
  /\ UNCHANGED <<syncVars, dbVars, ID_GEN, id_lock, callers, user_database, scripts,
                 children, reference, collab>>

\* plugin.rs:80  weak_local_collab.upgrade() is None: the value is dropped
\* and the loop goes on.
MirrorUpgradeNone ==
  /\ mirror.pc = "upgrade"
  /\ ~collab.alive
  /\ mirror' = Awaiting
  /\ UNCHANGED <<syncVars, dbVars, ID_GEN, id_lock, callers, user_database, scripts,
                 children, reference, collab>>

\* plugin.rs:81-82  try_lock() is Some: set_sync_state(new_state), and the
\* guard is dropped.
MirrorTryLockSome ==
  /\ mirror.pc = "try_lock"
  /\ ~collab.locked
  /\ collab' = [collab EXCEPT !.sync_state = mirror.new_state]
  /\ mirror' = Awaiting
  /\ UNCHANGED <<syncVars, dbVars, ID_GEN, id_lock, callers, user_database, scripts,
                 children, reference>>

\* plugin.rs:81  try_lock() is None, the lock being held: new_state is
\* dropped and the loop goes on.
MirrorTryLockNone ==
  /\ mirror.pc = "try_lock"
  /\ collab.locked
  /\ mirror' = Awaiting
  /\ UNCHANGED <<syncVars, dbVars, ID_GEN, id_lock, callers, user_database, scripts,
                 children, reference, collab>>

\* Another task locks the MutexCollab, and unlocks it.
OtherLock ==
  /\ Spawned
  /\ collab.alive /\ ~collab.locked
  /\ collab' = [collab EXCEPT !.locked = TRUE]
  /\ UNCHANGED <<syncVars, dbVars, ID_GEN, id_lock, callers, user_database, scripts,
                 children, reference, mirror>>

OtherUnlock ==
  /\ collab.locked
  /\ collab' = [collab EXCEPT !.locked = FALSE]
  /\ UNCHANGED <<syncVars, dbVars, ID_GEN, id_lock, callers, user_database, scripts,
                 children, reference, mirror>>

\* The owners of the collab drop it; the Arc the task holds between upgrade
\* and the end of the iteration keeps it until then.
DropCollab ==
  /\ Spawned
  /\ collab.alive /\ ~collab.locked
  /\ mirror.pc # "try_lock"
  /\ collab' = [collab EXCEPT !.alive = FALSE]
  /\ UNCHANGED <<syncVars, dbVars, ID_GEN, id_lock, callers, user_database, scripts,
                 children, reference, mirror>>

MirrorTask ==
  \/ MirrorStreamNext
  \/ MirrorUpgradeSome
  \/ MirrorUpgradeNone
  \/ MirrorTryLockSome
  \/ MirrorTryLockNone

\* The plugin with its mirror task, the owners of the collab and the queue
\* at work.
MirrorNext ==
  \/ ~Spawned /\ SubscribeSyncState(MirrorStream)
  \/ Spawned /\ LocalCommit(SubMaxUpdates)
  \/ Spawned /\ \E u \in Updates : TaskUpgrade(u)
  \/ Spawned /\ \E u \in Updates : TaskQueueMsg(u)
  \/ Spawned /\ SinkSendOk
  \/ Spawned /\ SinkSendFail
  \/ Spawned /\ Reset(SubMaxResets)
  \/ MirrorTask
  \/ OtherLock
  \/ OtherUnlock
  \/ DropCollab

MirrorSpec == MirrorInit /\ [][MirrorNext]_vars

\* The mirror task is scheduled, the stream is made, and a lock taken is
\* released.
FairMirrorSpec ==
  /\ MirrorSpec
  /\ WF_vars(SubscribeSyncState(MirrorStream))
  /\ WF_vars(MirrorTask)
  /\ WF_vars(OtherUnlock)

\* C26: from some point on, the queue having stopped changing its state, the
\* sync state of the local collab, while it is alive, is the state of the
\* queue.
C26_CollabMirrorsQueue ==
  <>[](collab.alive => collab.sync_state = sync_queue.state)

====
